---- MODULE Spec2Model ----
(***************************************************************************)
(* Model of the account consolidation engine of Accounts-Master            *)
(* (shared/deduplication.ts: consolidateAccounts and its helpers).         *)
(*                                                                         *)
(* JavaScript strings are TLA+ strings; TLC evaluates Len, SubSeq, Head,   *)
(* Tail and \o on them, so the string helpers below work character by      *)
(* character as the source does.                                           *)
(***************************************************************************)
EXTENDS Integers, Sequences, FiniteSets, TLC

(***************************************************************************)
(* String primitives (String.prototype.* as used by the source)            *)
(***************************************************************************)
Char(s, i) == SubSeq(s, i, i)

UpperChars == "ABCDEFGHIJKLMNOPQRSTUVWXYZ"
LowerChars == "abcdefghijklmnopqrstuvwxyz"
DigitChars == "0123456789"

CharsOf(chars) == {Char(chars, i) : i \in 1..Len(chars)}

UpperSet == CharsOf(UpperChars)
LowerSet == CharsOf(LowerChars)
DigitSet == CharsOf(DigitChars)

CharIn(c, chars) == \E i \in 1..Len(chars) : Char(chars, i) = c

LowerOf ==
  [c \in UpperSet |->
     Char(LowerChars, CHOOSE i \in 1..Len(UpperChars) : Char(UpperChars, i) = c)]

UpperOf ==
  [c \in LowerSet |->
     Char(UpperChars, CHOOSE i \in 1..Len(LowerChars) : Char(LowerChars, i) = c)]

toLowerChar(c) == IF c \in UpperSet THEN LowerOf[c] ELSE c

toUpperChar(c) == IF c \in LowerSet THEN UpperOf[c] ELSE c

RECURSIVE toLowerCase(_)
toLowerCase(s) ==
  IF Len(s) = 0 THEN "" ELSE toLowerChar(Char(s, 1)) \o toLowerCase(Tail(s))

\* \s of a JavaScript regular expression, on the characters of the model
isSpaceChar(c) == c = " " \/ c = "\t"

\* \w of a JavaScript regular expression
isWordChar(c) == c \in LowerSet \/ c \in UpperSet \/ c \in DigitSet \/ c = "_"

RECURSIVE trimStart(_)
trimStart(s) ==
  IF Len(s) > 0 /\ isSpaceChar(Char(s, 1)) THEN trimStart(Tail(s)) ELSE s

RECURSIVE trimEnd(_)
trimEnd(s) ==
  IF Len(s) > 0 /\ isSpaceChar(Char(s, Len(s)))
  THEN trimEnd(SubSeq(s, 1, Len(s) - 1))
  ELSE s

trim(s) == trimEnd(trimStart(s))

startsWith(s, p) == Len(p) <= Len(s) /\ SubSeq(s, 1, Len(p)) = p

endsWith(s, p) == Len(p) <= Len(s) /\ SubSeq(s, Len(s) - Len(p) + 1, Len(s)) = p

includes(s, p) ==
  \E i \in 0..(Len(s) - Len(p)) : SubSeq(s, i + 1, i + Len(p)) = p

\* index (1-based) of the first occurrence of the character c in s, 0 if none
indexOfChar(s, c) ==
  IF \E i \in 1..Len(s) : Char(s, i) = c
  THEN CHOOSE i \in 1..Len(s) :
         Char(s, i) = c /\ \A j \in 1..(i - 1) : Char(s, j) # c
  ELSE 0

\* s.split(c) for a one-character separator c
RECURSIVE split(_, _)
splitAt(s, c, i) ==
  IF i = 0 THEN <<s>>
  ELSE <<SubSeq(s, 1, i - 1)>> \o split(SubSeq(s, i + 1, Len(s)), c)

split(s, c) == splitAt(s, c, indexOfChar(s, c))

\* parts.join(c)
RECURSIVE join(_, _)
join(parts, c) ==
  IF Len(parts) = 0 THEN ""
  ELSE IF Len(parts) = 1 THEN parts[1]
  ELSE parts[1] \o c \o join(Tail(parts), c)

\* s.replace(/\s+/g, ' ')
RECURSIVE collapseSpaces(_)
collapseSpaces(s) ==
  IF Len(s) = 0 THEN ""
  ELSE IF isSpaceChar(Char(s, 1))
       THEN " " \o collapseSpaces(trimStart(s))
       ELSE Char(s, 1) \o collapseSpaces(Tail(s))

\* s.split(/\s+/)
splitSpaces(s) == split(collapseSpaces(s), " ")

filterChars(s, keep(_)) ==
  LET RECURSIVE go(_)
      go(r) == IF Len(r) = 0 THEN ""
               ELSE (IF keep(Char(r, 1)) THEN Char(r, 1) ELSE "") \o go(Tail(r))
  IN  go(s)

RECURSIVE SeqToSet(_)
SeqToSet(q) == IF Len(q) = 0 THEN {} ELSE {Head(q)} \cup SeqToSet(Tail(q))

FilterSeq(q, keep(_)) ==
  LET RECURSIVE go(_)
      go(r) == IF Len(r) = 0 THEN <<>>
               ELSE (IF keep(Head(r)) THEN <<Head(r)>> ELSE <<>>) \o go(Tail(r))
  IN  go(q)

\* the value of a missing property or an undefined variable
Undefined == "<undefined>"

(***************************************************************************)
(* metadata.link is absent, a string or an array of strings: a tagged      *)
(* value, so that Array.isArray and typeof can be decided.                 *)
(***************************************************************************)
LinkNone == [kind |-> "undefined", s |-> "", a |-> <<>>]
LinkStr(str) == [kind |-> "string", s |-> str, a |-> <<>>]
LinkArr(arr) == [kind |-> "array", s |-> "", a |-> arr]

\* JavaScript truthiness of a link value: every array is truthy
linkTruthy(l) == l.kind = "array" \/ (l.kind = "string" /\ l.s # "")

\* String(value) of a link value
linkToString(l) ==
  IF l.kind = "array" THEN join(l.a, ",")
  ELSE IF l.kind = "string" THEN l.s ELSE Undefined

(***************************************************************************)
(* isEmpty / normalizeEmpty                                                *)
(***************************************************************************)
\* trimmed is value.trim().toLowerCase()
isEmptyTrimmed(trimmed) ==
  trimmed = "" \/ trimmed = "-" \/ trimmed = "none" \/ trimmed = "n/a"

isEmpty(value) ==
  IF value = Undefined THEN TRUE ELSE isEmptyTrimmed(toLowerCase(trim(value)))

normalizeEmpty(value) == IF isEmpty(value) THEN "" ELSE trim(value)

\* value || ''
orEmpty(value) == IF value = Undefined THEN "" ELSE value

(***************************************************************************)
(* new URL(link).hostname for the links of the model: an http(s):// URL    *)
(* with a non-empty host of host characters; every other string throws     *)
(* (UrlThrows).                                                            *)
(***************************************************************************)
isHostChar(c) == isWordChar(c) \/ c = "-" \/ c = "."

RECURSIVE takeWhileNot(_, _)
takeWhileNot(s, stops) ==
  IF Len(s) = 0 \/ CharIn(Char(s, 1), stops) THEN ""
  ELSE Char(s, 1) \o takeWhileNot(Tail(s), stops)

UrlThrows == "<TypeError: Invalid URL>"

\* what follows the scheme of the trimmed URL t (lt is t lowercased)
urlRest(t, lt) ==
  IF startsWith(lt, "https://") THEN SubSeq(t, 9, Len(t))
  ELSE IF startsWith(lt, "http://") THEN SubSeq(t, 8, Len(t))
  ELSE UrlThrows

urlHostOf(rest, host) ==
  IF rest = UrlThrows \/ Len(host) = 0 THEN UrlThrows
  ELSE IF \E k \in 1..Len(host) : ~isHostChar(Char(host, k)) THEN UrlThrows
  ELSE toLowerCase(host)

urlHostnameOfRest(rest) == urlHostOf(rest, takeWhileNot(rest, "/?#:"))

urlHostnameOfTrimmed(t) == urlHostnameOfRest(urlRest(t, toLowerCase(t)))

urlHostname(link) == urlHostnameOfTrimmed(trim(link))

\* s.replace(/\/+$/, '')
RECURSIVE stripTrailingSlashes(_)
stripTrailingSlashes(s) ==
  IF Len(s) > 0 /\ Char(s, Len(s)) = "/"
  THEN stripTrailingSlashes(SubSeq(s, 1, Len(s) - 1))
  ELSE s

\* s.replace(/^www\./i, '')
stripWww(s) ==
  IF startsWith(toLowerCase(s), "www.") THEN SubSeq(s, 5, Len(s)) ELSE s

\* s.replace(/^https?:\/\//i, '')
stripScheme(s) ==
  IF startsWith(toLowerCase(s), "https://") THEN SubSeq(s, 9, Len(s))
  ELSE IF startsWith(toLowerCase(s), "http://") THEN SubSeq(s, 8, Len(s))
  ELSE s

isDomainHead(c) == c \in LowerSet \/ c \in UpperSet \/ c \in DigitSet \/ c = "-"

isDomainTail(c) == isDomainHead(c) \/ c = "."

\* last index of the run of characters satisfying the class that starts at i
RECURSIVE headRunEnd(_, _)
headRunEnd(s, i) ==
  IF i < Len(s) /\ isDomainHead(Char(s, i + 1)) THEN headRunEnd(s, i + 1) ELSE i

RECURSIVE tailRunEnd(_, _)
tailRunEnd(s, i) ==
  IF i < Len(s) /\ isDomainTail(Char(s, i + 1)) THEN tailRunEnd(s, i + 1) ELSE i

\* s.match(/([a-zA-Z0-9-]+\.[a-zA-Z0-9.-]+)/): the leftmost match, or Undefined
\* the pattern matches at i when the run of head characters from i ends at e
domainMatchesAt(s, i, e) ==
  /\ isDomainHead(Char(s, i))
  /\ e + 2 <= Len(s) /\ Char(s, e + 1) = "." /\ isDomainTail(Char(s, e + 2))

domainMatchStarts(s) ==
  {i \in 1..Len(s) : domainMatchesAt(s, i, headRunEnd(s, i))}

domainMatchFrom(s, i) == SubSeq(s, i, tailRunEnd(s, headRunEnd(s, i) + 2))

domainMatchAmong(s, starts) ==
  IF starts = {} THEN Undefined
  ELSE domainMatchFrom(s, CHOOSE m \in starts : \A n \in starts : m <= n)

domainMatch(s) == domainMatchAmong(s, domainMatchStarts(s))

\* the catch branch (lines 242-257): n2 is the link without scheme and www.,
\* m the domain pattern found in it
normalizeByPattern(n2, m) ==
  IF m # Undefined THEN stripWww(toLowerCase(m)) ELSE toLowerCase(n2)

normalizeWithoutUrl(n2) == normalizeByPattern(n2, domainMatch(n2))

\* hostname is new URL(normalized).hostname or UrlThrows
normalizeByHostname(normalized, hostname) ==
  IF hostname # UrlThrows THEN stripWww(hostname)
  ELSE normalizeWithoutUrl(stripTrailingSlashes(stripWww(stripScheme(normalized))))

normalizeTrimmedLink(normalized) ==
  normalizeByHostname(normalized, urlHostname(normalized))

normalizeLinkForMatching(link) ==
  IF link = Undefined \/ link = "" \/ isEmpty(link) THEN ""
  ELSE normalizeTrimmedLink(stripTrailingSlashes(trim(link)))

baseDomainOfParts(domain, parts) ==
  IF Len(parts) >= 2 THEN parts[Len(parts) - 1]
  ELSE IF parts[1] # "" THEN parts[1] ELSE domain

extractBaseDomain(domain) == baseDomainOfParts(domain, split(domain, "."))

tldOfParts(parts) == IF Len(parts) >= 2 THEN parts[Len(parts)] ELSE ""

getTLD(domain) == tldOfParts(split(domain, "."))

domainOfParts(normalized, parts) ==
  IF normalized = "" THEN ""
  ELSE IF Len(parts) >= 2
       THEN parts[Len(parts) - 1] \o "." \o parts[Len(parts)]
       ELSE normalized

domainOfNormalized(normalized) == domainOfParts(normalized, split(normalized, "."))

extractDomainFromLink(link) == domainOfNormalized(normalizeLinkForMatching(link))

isKnownTLD(tld) == tld = "com" \/ tld = "org" \/ tld = "io"

\* the three ways of being related (lines 272-302)
domainsRelatedBy(norm1, norm2, base1, base2, tld1, tld2) ==
  \/ norm1 = norm2
  \/ /\ base1 = base2 /\ Len(base1) >= 3
     /\ tld1 # tld2 /\ (isKnownTLD(tld1) \/ isKnownTLD(tld2))
  \/ /\ includes(norm1, base2) \/ includes(norm2, base1)
     /\ \/ endsWith(norm1, "." \o base2 \o "." \o tld1)
        \/ endsWith(norm2, "." \o base1 \o "." \o tld2)
        \/ norm1 = base2 \o "." \o tld1
        \/ norm2 = base1 \o "." \o tld2

normalizedDomainsRelated(norm1, norm2) ==
  domainsRelatedBy(norm1, norm2, extractBaseDomain(norm1), extractBaseDomain(norm2),
                   getTLD(norm1), getTLD(norm2))

areDomainsRelated(domain1, domain2) ==
  IF isEmpty(domain1) \/ isEmpty(domain2) THEN FALSE
  ELSE normalizedDomainsRelated(normalizeLinkForMatching(domain1),
                                normalizeLinkForMatching(domain2))


(***************************************************************************)
(* Service-name matching                                                   *)
(***************************************************************************)
BusinessSuffixes == {"inc", "llc", "ltd", "corp", "corporation", "company", "co"}

\* s.replace(/\s+(inc|llc|ltd|corp|corporation|company|co)$/i, '')
businessSuffixesOf(s) ==
  {w \in BusinessSuffixes :
     /\ endsWith(toLowerCase(s), w)
     /\ Len(s) > Len(w)
     /\ isSpaceChar(Char(s, Len(s) - Len(w)))}

stripSuffix(s, w) == trimEnd(SubSeq(s, 1, Len(s) - Len(w)))

stripSuffixAmong(s, hit) ==
  IF hit = {} THEN s ELSE stripSuffix(s, CHOOSE v \in hit : TRUE)

stripBusinessSuffix(s) == stripSuffixAmong(s, businessSuffixesOf(s))

\* s.replace(/[^\w\s-]/g, '')
stripSpecialChars(s) ==
  filterChars(s, LAMBDA c : isWordChar(c) \/ isSpaceChar(c) \/ c = "-")

normalizeServiceNameForMatching(serviceName) ==
  IF serviceName = Undefined \/ serviceName = "" \/ isEmpty(serviceName) THEN ""
  ELSE trim(collapseSpaces(stripSpecialChars(
         stripBusinessSuffix(toLowerCase(trim(serviceName))))))

CommonWords == {"the", "and", "for", "with", "app", "service", "portal", "account"}

\* the similarity as the pair <<intersection size, union size>>; <<1, 1>> is 1.0
\* and <<0, 1>> is 0.0
\* str.split(/\s+/).filter(w => !commonWords.has(w))
wordsOf(str) == FilterSeq(splitSpaces(str), LAMBDA w : w \notin CommonWords)

jaccard(set1, set2) ==
  IF set1 \cup set2 = {} THEN <<0, 1>>
  ELSE <<Cardinality(set1 \cap set2), Cardinality(set1 \cup set2)>>

wordSimilarity(words1, words2) ==
  IF Len(words1) = 0 /\ Len(words2) = 0 THEN <<1, 1>>
  ELSE jaccard(SeqToSet(words1), SeqToSet(words2))

calculateStringSimilarity(str1, str2) ==
  IF str1 = str2 THEN <<1, 1>>
  ELSE IF Len(str1) = 0 \/ Len(str2) = 0 THEN <<0, 1>>
  ELSE wordSimilarity(wordsOf(str1), wordsOf(str2))

\* similarity > 0.85
SimilarityThresholdPct == 85

minLength(a, b) == IF Len(a) < Len(b) THEN Len(a) ELSE Len(b)

aboveThreshold(sim) == sim[1] * 100 > SimilarityThresholdPct * sim[2]

\* faulty variant: only the first name is searched for the second
normalizedServicesSimilarOneWay(norm1, norm2) ==
  \/ norm1 = norm2
  \/ includes(norm1, norm2) /\ minLength(norm1, norm2) >= 4
  \/ aboveThreshold(calculateStringSimilarity(norm1, norm2))

normalizedServicesSimilar(norm1, norm2) ==
  \/ norm1 = norm2
  \/ (includes(norm1, norm2) \/ includes(norm2, norm1)) /\ minLength(norm1, norm2) >= 4
  \/ aboveThreshold(calculateStringSimilarity(norm1, norm2))

areServicesSimilar(service1, service2) ==
  IF isEmpty(service1) \/ isEmpty(service2) THEN FALSE
  ELSE normalizedServicesSimilar(normalizeServiceNameForMatching(service1),
                                 normalizeServiceNameForMatching(service2))

(***************************************************************************)
(* Links: source label, combination, membership in a list                  *)
(***************************************************************************)
capitalize(s) ==
  IF Len(s) = 0 THEN "" ELSE toUpperChar(Char(s, 1)) \o Tail(s)

sourceOfParts(hostname, parts) ==
  IF Len(parts) >= 2 THEN capitalize(parts[Len(parts) - 1]) ELSE hostname

sourceOfHostname(hostname) ==
  IF hostname = UrlThrows THEN "Unknown"
  ELSE IF includes(hostname, "gmail.com") THEN "Gmail"
  ELSE IF includes(hostname, "appfolio.com") THEN "Allied"
  ELSE IF includes(hostname, "crimson.com") THEN "Crimson"
  ELSE IF includes(hostname, "domini.com") THEN "DominI"
  ELSE sourceOfParts(hostname, split(hostname, "."))

\* l is the link the label is taken from: the first of an array, or the string
sourceOfLink(l) == IF l = "" THEN "Unknown" ELSE sourceOfHostname(urlHostname(l))

\* link is a link value (string, array or absent)
extractSourceFromLink(link) ==
  IF ~linkTruthy(link) \/ isEmpty(linkToString(link)) THEN "Unknown"
  ELSE sourceOfLink(IF link.kind = "array"
                    THEN (IF Len(link.a) > 0 THEN link.a[1] ELSE "")
                    ELSE link.s)

RECURSIVE mapTrim(_)
mapTrim(q) == IF Len(q) = 0 THEN <<>> ELSE <<trim(Head(q))>> \o mapTrim(Tail(q))

\* the list of links a side of combineLinkStrings contributes
linkItems(link) ==
  IF ~linkTruthy(link) THEN <<>>
  ELSE IF link.kind = "array"
       THEN FilterSeq(link.a, LAMBDA l : l # "" /\ ~isEmpty(l))
       ELSE FilterSeq(mapTrim(split(link.s, ",")), LAMBDA l : ~isEmpty(l))

\* faulty variant: links that differ only in case are both kept
RECURSIVE dedupeLinksCaseSensitive(_, _, _)
dedupeLinksCaseSensitive(links, seen, out) ==
  IF Len(links) = 0 THEN out
  ELSE IF ~isEmpty(Head(links)) /\ trim(Head(links)) \notin seen
  THEN dedupeLinksCaseSensitive(Tail(links), seen \cup {trim(Head(links))},
                                Append(out, trim(Head(links))))
  ELSE dedupeLinksCaseSensitive(Tail(links), seen, out)

\* the Set / Map loop: first-seen value per lowercased, trimmed link
RECURSIVE dedupeLinks(_, _, _)
dedupeLinks(links, seen, out) ==
  IF Len(links) = 0 THEN out
  ELSE LET link == Head(links)
           normalized == trim(toLowerCase(link))
       IN  IF ~isEmpty(link) /\ normalized \notin seen
           THEN dedupeLinks(Tail(links), seen \cup {normalized}, Append(out, trim(link)))
           ELSE dedupeLinks(Tail(links), seen, out)

\* faulty variant: each side is de-duplicated, the two lists are appended
combineLinkStringsAppends(link1, link2) ==
  join(dedupeLinks(linkItems(link1), {}, <<>>) \o dedupeLinks(linkItems(link2), {}, <<>>), ",")

\* faulty variant: the incoming links are put before the existing ones
combineLinkStringsIncomingFirst(link1, link2) ==
  join(dedupeLinks(linkItems(link2) \o linkItems(link1), {}, <<>>), ",")

combineLinkStrings(link1, link2) ==
  join(dedupeLinks(linkItems(link1) \o linkItems(link2), {}, <<>>), ",")

\* the first link of a link value, as every pass extracts it
firstLink(linkValue) ==
  IF ~linkTruthy(linkValue) THEN ""
  ELSE IF linkValue.kind = "array"
       THEN (IF Len(linkValue.a) > 0 THEN linkValue.a[1] ELSE "")
       ELSE trim(split(linkValue.s, ",")[1])

\* the links of linkList (lines 370-377)
linksOf(linkList) ==
  IF linkList.kind = "array" THEN linkList.a
  ELSE FilterSeq(mapTrim(split(linkList.s, ",")), LAMBDA l : Len(l) > 0)

\* the three tests of the loop body (lines 389-403)
normalizedLinkMatches(singleLink, normalizedSingleLink, link, normalizedLink) ==
  /\ ~isEmpty(link)
  /\ \/ normalizedSingleLink = normalizedLink
     \/ extractDomainFromLink(normalizedSingleLink) = extractDomainFromLink(normalizedLink)
     \/ areDomainsRelated(singleLink, link)

linkMatches(singleLink, normalizedSingleLink, link) ==
  normalizedLinkMatches(singleLink, normalizedSingleLink, link,
                        normalizeLinkForMatching(link))

linkMatchesAny(singleLink, normalizedSingleLink, links) ==
  \E k \in 1..Len(links) : linkMatches(singleLink, normalizedSingleLink, links[k])

linkMatchesAnyInList(singleLink, linkList) ==
  IF singleLink = "" \/ isEmpty(singleLink) THEN FALSE
  ELSE IF ~linkTruthy(linkList) THEN FALSE
  ELSE linkMatchesAny(singleLink, normalizeLinkForMatching(singleLink), linksOf(linkList))

(***************************************************************************)
(* Worst-of password strength and recommendation                           *)
(***************************************************************************)
getPasswordStrengthPriority(strength) ==
  CASE strength = "weak" -> 1
    [] strength = "moderate" -> 2
    [] strength = "strong" -> 3
    [] OTHER -> 4

\* faulty variant: the comparison turned around, the stronger verdict is kept
getStrongestPasswordStrength(strength1, strength2) ==
  IF getPasswordStrengthPriority(strength1) >= getPasswordStrengthPriority(strength2)
  THEN strength1 ELSE strength2

getWorstPasswordStrength(strength1, strength2) ==
  IF getPasswordStrengthPriority(strength1) <= getPasswordStrengthPriority(strength2)
  THEN strength1 ELSE strength2


\* a metadata value that is not a string (metadata is Record<string, any> at run
\* time); calling a String method on it throws a TypeError
NotAString == "<not a string>"

\* recommendation.toLowerCase() throws
recommendationThrows(recommendation) == recommendation = NotAString

getRecommendationPriority(recommendation) ==
  IF recommendation = Undefined \/ recommendation = "" THEN 4
  ELSE LET rec == toLowerCase(recommendation)
       IN  IF includes(rec, "weak") \/ includes(rec, "poor") THEN 1
           ELSE IF includes(rec, "moderate") THEN 2
           ELSE IF includes(rec, "strong") \/ includes(rec, "good") THEN 3
           ELSE 4

getWorstRecommendation(rec1, rec2) ==
  IF getRecommendationPriority(rec1) <= getRecommendationPriority(rec2)
  THEN rec1 ELSE rec2

(***************************************************************************)
(* Accounts.  A DiscoveredAccount is                                       *)
(*   [id, service, accountEmail, source, discoveredAt, metadata]           *)
(* with metadata = [link, username, password, passwordStrength,            *)
(* passwordRecommendation, platform]; a missing key holds Undefined.  A    *)
(* DeduplicatedAccount adds allSources, firstDiscoveredAt and              *)
(* lastDiscoveredAt; on a DiscoveredAccount allSources is <<>> ('allSources'*)
(* in incoming is false and nothing is iterated).  members is a history    *)
(* field the code does not have: the ids of the input records whose data   *)
(* were merged into the record.                                            *)
(***************************************************************************)
seqIncludes(q, e) == \E k \in 1..Len(q) : q[k] = e

RECURSIVE pushMissing(_, _)
pushMissing(into, from) ==
  IF Len(from) = 0 THEN into
  ELSE pushMissing(IF seqIncludes(into, Head(from)) THEN into ELSE Append(into, Head(from)),
                   Tail(from))

\* a || b on strings
orElse(a, b) == IF a = Undefined \/ a = "" THEN b ELSE a

\* faulty variant: the existing side is kept even when it is empty
mergedCredentialExistingOnly(existingValue, incomingValue) == existingValue

\* faulty variant: the incoming side overwrites the field, empty or not
mergedCredentialIncomingWins(existingValue, incomingValue) == incomingValue

\* username and password: existing first, incoming if existing is empty
\* (lines 568-585)
mergedCredential(existingValue, incomingValue) ==
  IF ~isEmpty(existingValue) THEN existingValue
  ELSE IF ~isEmpty(incomingValue) THEN incomingValue
  ELSE existingValue

mergeThrows(existing, incoming) ==
  \/ recommendationThrows(existing.metadata.passwordRecommendation)
  \/ recommendationThrows(incoming.metadata.passwordRecommendation)

\* allSources of the merged record (lines 505-520)
mergedSources(existing, incoming) ==
  pushMissing(pushMissing(existing.allSources, incoming.allSources),
              <<incoming.source>>)

\* the link of the merged record (lines 539-542): the combined links, or the
\* existing link when the combination is empty
mergedLink(existingLink, combinedServiceLink) ==
  IF combinedServiceLink # "" THEN LinkStr(combinedServiceLink) ELSE existingLink

\* mergedMetadata (lines 533-626); em and im are the metadata of the two sides
mergedMetadata(em, im) ==
  [link |-> mergedLink(em.link, combineLinkStrings(em.link, im.link)),
   username |-> mergedCredential(em.username, im.username),
   password |-> mergedCredential(em.password, im.password),
   passwordStrength |->
     getWorstPasswordStrength(em.passwordStrength, im.passwordStrength),
   passwordRecommendation |->
     getWorstRecommendation(em.passwordRecommendation, im.passwordRecommendation),
   platform |-> orElse(orElse(em.platform, "Unknown"),
                       orElse(orElse(im.platform, "Unknown"), "Unknown"))]

\* service and accountEmail: incoming if it is not empty (lines 633-634)
mergedField(existingValue, incomingValue) ==
  IF ~isEmpty(incomingValue) THEN incomingValue ELSE orEmpty(existingValue)

\* the dates, the recomputed source and the returned object (lines 523-530,
\* 629-646)
mergedRecord(existing, incoming, metadata) ==
  [existing EXCEPT
     !.service = mergedField(existing.service, incoming.service),
     !.accountEmail = mergedField(existing.accountEmail, incoming.accountEmail),
     !.source = extractSourceFromLink(metadata.link),
     !.metadata = metadata,
     !.allSources = mergedSources(existing, incoming),
     !.firstDiscoveredAt = IF incoming.discoveredAt < existing.firstDiscoveredAt
                           THEN incoming.discoveredAt ELSE existing.firstDiscoveredAt,
     !.lastDiscoveredAt = IF incoming.discoveredAt > existing.lastDiscoveredAt
                          THEN incoming.discoveredAt ELSE existing.lastDiscoveredAt,
     !.id = existing.id,
     !.members = existing.members \cup incoming.members]

mergeAccountsWithLinks(existing, incoming) ==
  mergedRecord(existing, incoming, mergedMetadata(existing.metadata, incoming.metadata))

(***************************************************************************)
(* A JavaScript Map<string, account>: the entries in insertion order.      *)
(***************************************************************************)
mapIndex(m, key) ==
  IF \E k \in 1..Len(m) : m[k].key = key
  THEN CHOOSE k \in 1..Len(m) : m[k].key = key
  ELSE 0

mapHas(m, key) == mapIndex(m, key) # 0

mapGet(m, key) == m[mapIndex(m, key)].val

\* set keeps the position of a key that is present and appends a new key
mapSet(m, key, val) ==
  IF mapHas(m, key)
  THEN [m EXCEPT ![mapIndex(m, key)] = [key |-> key, val |-> val]]
  ELSE Append(m, [key |-> key, val |-> val])

mapDelete(m, key) ==
  LET k == mapIndex(m, key)
  IN  IF k = 0 THEN m ELSE SubSeq(m, 1, k - 1) \o SubSeq(m, k + 1, Len(m))

RECURSIVE mapValues(_)
mapValues(m) == IF Len(m) = 0 THEN <<>> ELSE <<Head(m).val>> \o mapValues(Tail(m))

\* the least index in 1..n satisfying the test, 0 if none: a for loop left by break
firstIndex(n, test(_)) ==
  IF \E k \in 1..n : test(k)
  THEN CHOOSE k \in 1..n : test(k) /\ \A j \in 1..(k - 1) : ~test(j)
  ELSE 0

\* `${a}|${b}|${c}`
keyOf(a, b, c) == a \o "|" \o b \o "|" \o c

\* a group as pass 1, pass 2 and the blank bucket create it from an input record
newGroup(account, source) ==
  [account EXCEPT
     !.source = source,
     !.allSources = <<account.source>>,
     !.firstDiscoveredAt = account.discoveredAt,
     !.lastDiscoveredAt = account.discoveredAt,
     !.members = {account.id}]


(***************************************************************************)
(* consolidateAccounts.  The engine state of one call is                   *)
(*   [mergeMap, blankRowsByService, mergedCount, removedCount, threw]      *)
(* threw records an exception raised by the step.                          *)
(***************************************************************************)
emptyEngine ==
  [mergeMap |-> <<>>, blankRowsByService |-> <<>>,
   mergedCount |-> 0, removedCount |-> 0, threw |-> FALSE]

\* const linkValue = account.metadata?.link; serviceLink = first link
serviceLinkOf(account) == firstLink(account.metadata.link)

emailOf(account) == toLowerCase(normalizeEmpty(orEmpty(account.accountEmail)))
passwordOf(account) == normalizeEmpty(orEmpty(account.metadata.password))
serviceOf(account) == toLowerCase(normalizeEmpty(orEmpty(account.service)))
domainOf(account) ==
  extractDomainFromLink(normalizeLinkForMatching(serviceLinkOf(account)))

hasEmptyCredentials(account) ==
  isEmpty(orEmpty(account.accountEmail)) \/ isEmpty(orEmpty(account.metadata.password))

\* faulty variant: the same email and password are enough to match
priority1MatchesCredentialsOnly(account, acc) ==
  /\ emailOf(acc) = emailOf(account)
  /\ passwordOf(acc) = passwordOf(account)

\* PRIORITY 1, the scan of all entries (lines 740-766)
priority1Matches(account, acc) ==
  /\ emailOf(acc) = emailOf(account)
  /\ passwordOf(acc) = passwordOf(account)
  /\ \/ serviceOf(acc) = serviceOf(account)
     \/ areServicesSimilar(orEmpty(account.service), acc.service)
     \/ /\ ~isEmpty(serviceLinkOf(account))
        /\ linkMatchesAnyInList(serviceLinkOf(account), acc.metadata.link)

\* the tests of shouldMerge in PRIORITY 2 (lines 792-835) on the values the
\* loop body computes: the two service names, the two first links, their domains
priority2Test(account, acc, normalizedService, accService, serviceLink, accLinkStr, domain1, domain2) ==
  \/ /\ ~isEmpty(normalizedService) /\ ~isEmpty(accService)
     /\ \/ normalizedService = accService
        \/ areServicesSimilar(orEmpty(account.service), acc.service)
  \/ /\ ~isEmpty(serviceLink)
     /\ linkMatchesAnyInList(serviceLink, acc.metadata.link)
  \/ /\ ~isEmpty(domain1) /\ ~isEmpty(domain2)
     /\ \/ domain1 = domain2
        \/ areDomainsRelated(serviceLink, accLinkStr)
  \/ /\ ~isEmpty(normalizedService) /\ ~isEmpty(accService)
     /\ normalizedService = accService
     /\ (domain1 = domain2 \/ isEmpty(domain1) \/ isEmpty(domain2))
  \/ /\ normalizedService = accService /\ domain1 = domain2
     /\ ~isEmpty(domain1)

\* PRIORITY 2, shouldMerge (lines 773-846)
priority2Matches(account, acc) ==
  /\ emailOf(acc) = emailOf(account)
  /\ passwordOf(acc) = passwordOf(account)
  /\ priority2Test(account, acc, serviceOf(account), serviceOf(acc),
                   serviceLinkOf(account), firstLink(acc.metadata.link),
                   domainOf(account), domainOf(acc))

\* serviceBasedKey (line 732)
serviceBasedKey(account) ==
  keyOf(emailOf(account), passwordOf(account), serviceOf(account))

\* linkBasedKey (line 873) for the domain of the record's first link
linkBasedKey(account, linkDomain) ==
  keyOf(emailOf(account), passwordOf(account), linkDomain)

\* const linkDomain = extractDomainFromLink(serviceLink)
linkDomainOf(account) == extractDomainFromLink(serviceLinkOf(account))

\* the key by service, else by link domain, else the key given
keyByServiceOrDomain(account, linkDomain, otherwise) ==
  IF ~isEmpty(serviceOf(account)) THEN serviceBasedKey(account)
  ELSE IF ~isEmpty(serviceLinkOf(account)) /\ ~isEmpty(linkDomain)
       THEN linkBasedKey(account, linkDomain)
       ELSE otherwise

\* the key a record gets when PRIORITY 2 matched the entry stored under key
priority2Key(account, key) == keyByServiceOrDomain(account, linkDomainOf(account), key)

\* createMergeKey for a record with credentials (lines 441-446)
createMergeKey(account) ==
  keyOf(emailOf(account), passwordOf(account),
        IF ~isEmpty(serviceOf(account)) THEN serviceOf(account)
        ELSE linkDomainOf(account))

\* the key of a record no entry matched (lines 883-897)
newEntryKey(account) ==
  keyByServiceOrDomain(account, linkDomainOf(account), createMergeKey(account))

\* the link-based lookup (lines 869-880) and, when it finds nothing, no match
findByLinkKey(mergeMap, account, linkDomain) ==
  IF ~isEmpty(serviceLinkOf(account)) /\ ~isEmpty(linkDomain)
     /\ mapHas(mergeMap, linkBasedKey(account, linkDomain))
  THEN [existingKey |-> linkBasedKey(account, linkDomain),
        mergeKeyToUse |-> linkBasedKey(account, linkDomain)]
  ELSE [existingKey |-> "", mergeKeyToUse |-> newEntryKey(account)]

\* p2 is the first entry PRIORITY 2 matches, 0 if none
findByPriority2(mergeMap, account, p2) ==
  IF p2 # 0
  THEN [existingKey |-> mergeMap[p2].key,
        mergeKeyToUse |-> priority2Key(account, mergeMap[p2].key)]
  ELSE findByLinkKey(mergeMap, account, linkDomainOf(account))

\* p1 is the first entry PRIORITY 1 matches, 0 if none or if it did not scan
findByPriority1(mergeMap, account, p1) ==
  IF p1 # 0
  THEN [existingKey |-> mergeMap[p1].key, mergeKeyToUse |-> serviceBasedKey(account)]
  ELSE findByPriority2(mergeMap, account,
         firstIndex(Len(mergeMap),
                    LAMBDA k : priority2Matches(account, mergeMap[k].val)))

\* the search of pass 1: [existingKey, mergeKeyToUse], existingKey "" if none
findExisting(mergeMap, account) ==
  IF ~isEmpty(serviceOf(account)) /\ mapHas(mergeMap, serviceBasedKey(account))
  THEN [existingKey |-> serviceBasedKey(account),
        mergeKeyToUse |-> serviceBasedKey(account)]
  ELSE findByPriority1(mergeMap, account,
         IF ~isEmpty(serviceOf(account))
         THEN firstIndex(Len(mergeMap),
                         LAMBDA k : priority1Matches(account, mergeMap[k].val))
         ELSE 0)

\* the blank bucket of pass 1 (lines 698-712)
pushBlankRow(buckets, serviceKey, row) ==
  IF mapHas(buckets, serviceKey)
  THEN mapSet(buckets, serviceKey, Append(mapGet(buckets, serviceKey), row))
  ELSE mapSet(buckets, serviceKey, <<row>>)

\* extractSourceFromLink(serviceLink || linkValue) (lines 901, 1038)
recomputedSourceOf(account) ==
  extractSourceFromLink(IF serviceLinkOf(account) # ""
                        THEN LinkStr(serviceLinkOf(account))
                        ELSE account.metadata.link)

\* the duplicate branch (lines 911-922): existing is the entry that was found
pass1Merge(st, account, f, existing) ==
  IF mergeThrows(existing, account)
  THEN [st EXCEPT !.mergedCount = @ + 1, !.threw = TRUE]
  ELSE [st EXCEPT
          !.mergedCount = @ + 1,
          !.mergeMap =
            mapSet(IF f.existingKey # f.mergeKeyToUse
                   THEN mapDelete(@, f.existingKey) ELSE @,
                   f.mergeKeyToUse,
                   mergeAccountsWithLinks(existing, account))]

\* what the loop body does with the outcome f of the search (lines 899-922)
pass1Store(st, account, f) ==
  IF f.existingKey = ""
  THEN [st EXCEPT !.mergeMap =
          mapSet(@, f.mergeKeyToUse, newGroup(account, recomputedSourceOf(account)))]
  ELSE pass1Merge(st, account, f, mapGet(st.mergeMap, f.existingKey))

\* the first loop without the guard of lines 673-677
pass1StepKeepsMissingId(st, account) ==
  IF hasEmptyCredentials(account) /\ ~isEmpty(orEmpty(account.service))
  THEN [st EXCEPT !.blankRowsByService =
          pushBlankRow(@, serviceOf(account), newGroup(account, account.source))]
  ELSE IF hasEmptyCredentials(account) THEN st
  ELSE pass1Store(st, account, findExisting(st.mergeMap, account))

\* one iteration of the first loop (lines 673-923)
pass1Step(st, account) ==
  IF account.id = "" THEN st
  ELSE IF hasEmptyCredentials(account) /\ ~isEmpty(orEmpty(account.service))
  THEN [st EXCEPT !.blankRowsByService =
          pushBlankRow(@, serviceOf(account), newGroup(account, account.source))]
  ELSE IF hasEmptyCredentials(account) THEN st
  ELSE pass1Store(st, account, findExisting(st.mergeMap, account))

RECURSIVE pass1(_, _)
pass1(st, accounts) ==
  IF Len(accounts) = 0 \/ st.threw THEN st
  ELSE pass1(pass1Step(st, Head(accounts)), Tail(accounts))


\* the tests of shouldMerge in the second pass on the values the loop body
\* computes: the two service names, the two first links, their domains
pass2Test(account, mergedAcc, normalizedService, mergedService, serviceLink, mergedLinkStr, domain1, domain2) ==
  \/ /\ ~isEmpty(normalizedService) /\ ~isEmpty(mergedService)
     /\ \/ normalizedService = mergedService
        \/ areServicesSimilar(orEmpty(account.service), mergedAcc.service)
  \/ /\ ~isEmpty(serviceLink)
     /\ linkMatchesAnyInList(serviceLink, mergedAcc.metadata.link)
  \/ /\ ~isEmpty(domain1) /\ ~isEmpty(domain2)
     /\ \/ domain1 = domain2
        \/ areDomainsRelated(serviceLink, mergedLinkStr)
  \/ /\ ~isEmpty(normalizedService) /\ ~isEmpty(mergedService)
     /\ normalizedService = mergedService /\ domain1 = domain2
     /\ ~isEmpty(domain1)

\* shouldMerge of the second pass (lines 958-1014)
pass2Matches(account, mergedAcc) ==
  /\ emailOf(mergedAcc) = emailOf(account)
  /\ passwordOf(mergedAcc) = passwordOf(account)
  /\ pass2Test(account, mergedAcc, serviceOf(account), serviceOf(mergedAcc),
               serviceLinkOf(account), firstLink(mergedAcc.metadata.link),
               domainOf(account), domainOf(mergedAcc))

\* the key under which the map holds the entry with the id of mergedAcc, "" if none
keyAt(mergeMap, k) == IF k = 0 THEN "" ELSE mergeMap[k].key

keyOfId(mergeMap, id) ==
  keyAt(mergeMap, firstIndex(Len(mergeMap), LAMBDA j : mergeMap[j].val.id = id))

\* newMergeKey of the second pass (lines 1039-1047), "" if none
pass2NewKey(account) == keyByServiceOrDomain(account, linkDomainOf(account), "")

\* the merge of the second pass (lines 1016-1031) into mergedAcc, the group of
\* the list that matched and is still held by the map
pass2Merge(r, account, mergedAcc) ==
  IF mergeThrows(mergedAcc, account)
  THEN [r EXCEPT !.st.mergedCount = @ + 1, !.st.threw = TRUE]
  ELSE [r EXCEPT
          !.st.mergedCount = @ + 1,
          !.st.mergeMap = mapSet(@, keyOfId(r.st.mergeMap, mergedAcc.id),
                                 mergeAccountsWithLinks(mergedAcc, account)),
          !.processedIds = @ \cup {account.id}]

\* the new entry of the second pass (lines 1036-1060)
pass2Add(r, account, newMergeKey) ==
  IF newMergeKey # "" /\ ~mapHas(r.st.mergeMap, newMergeKey)
  THEN [r EXCEPT
          !.st.mergeMap = mapSet(@, newMergeKey,
                                 newGroup(account, recomputedSourceOf(account))),
          !.processedIds = @ \cup {account.id}]
  ELSE r

\* hit is the first group of the list that matches, 0 if none
pass2Store(r, currentMergedList, account, hit) ==
  IF hit # 0 THEN pass2Merge(r, account, currentMergedList[hit])
  ELSE pass2Add(r, account, pass2NewKey(account))

\* one iteration of the second loop (lines 932-1062) on r = [st, processedIds];
\* currentMergedList is the list of groups as pass 1 left them, processedIds
\* the ids handled so far
pass2Step(r, currentMergedList, account) ==
  IF account.id = "" \/ account.id \in r.processedIds \/ hasEmptyCredentials(account)
  THEN r
  ELSE pass2Store(r, currentMergedList, account,
         firstIndex(Len(currentMergedList),
           LAMBDA k : /\ pass2Matches(account, currentMergedList[k])
                      /\ keyOfId(r.st.mergeMap, currentMergedList[k].id) # ""))

RECURSIVE pass2Loop(_, _, _)
pass2Loop(r, currentMergedList, accounts) ==
  IF Len(accounts) = 0 \/ r.st.threw THEN r.st
  ELSE pass2Loop(pass2Step(r, currentMergedList, Head(accounts)),
                 currentMergedList, Tail(accounts))

\* the ids of the groups of the map: processedIds as the second pass starts
processedIdsOf(mergeMap) == {mergeMap[k].val.id : k \in 1..Len(mergeMap)}

pass2(st, accounts) ==
  IF st.threw THEN st
  ELSE pass2Loop([st |-> st, processedIds |-> processedIdsOf(st.mergeMap)],
                 mapValues(st.mergeMap), accounts)

\* currentMerged after the loop over the blank rows (lines 1081-1085)
RECURSIVE mergeBlankRows(_, _)
mergeBlankRows(currentMerged, blankRows) ==
  IF Len(blankRows) = 0 THEN currentMerged
  ELSE mergeBlankRows(mergeAccountsWithLinks(currentMerged, Head(blankRows)),
                      Tail(blankRows))

blankRowsThrow(filled, blankRows) ==
  \/ recommendationThrows(filled.metadata.passwordRecommendation)
  \/ \E k \in 1..Len(blankRows) :
       recommendationThrows(blankRows[k].metadata.passwordRecommendation)

\* faulty variant: a bucket merged into a filled row counts as one removed row
pass3StoreCountsBuckets(st, serviceKey, blankRows, hit) ==
  IF hit # 0
  THEN IF blankRowsThrow(st.mergeMap[hit].val, blankRows)
       THEN [st EXCEPT !.threw = TRUE]
       ELSE [st EXCEPT
               !.mergedCount = @ + Len(blankRows),
               !.mergeMap = mapSet(@, st.mergeMap[hit].key,
                              mergeBlankRows(st.mergeMap[hit].val, blankRows)),
               !.removedCount = @ + 1]
  ELSE [st EXCEPT
          !.mergeMap = mapSet(@, "_BLANK_" \o serviceKey, blankRows[1]),
          !.removedCount = @ + (Len(blankRows) - 1)]

\* what STEP 1b does with a bucket (lines 1078-1096); hit is the first filled
\* row of the service, 0 if none
pass3Store(st, serviceKey, blankRows, hit) ==
  IF hit # 0
  THEN IF blankRowsThrow(st.mergeMap[hit].val, blankRows)
       THEN [st EXCEPT !.threw = TRUE]
       ELSE [st EXCEPT
               !.mergedCount = @ + Len(blankRows),
               !.mergeMap = mapSet(@, st.mergeMap[hit].key,
                              mergeBlankRows(st.mergeMap[hit].val, blankRows)),
               !.removedCount = @ + Len(blankRows)]
  ELSE [st EXCEPT
          !.mergeMap = mapSet(@, "_BLANK_" \o serviceKey, blankRows[1]),
          !.removedCount = @ + (Len(blankRows) - 1)]

\* one bucket of STEP 1b (lines 1065-1098)
pass3Step(st, bucket) ==
  pass3Store(st, bucket.key, bucket.val,
    firstIndex(Len(st.mergeMap),
      LAMBDA k : toLowerCase(normalizeEmpty(st.mergeMap[k].val.service)) = bucket.key))

RECURSIVE pass3Loop(_, _)
pass3Loop(st, buckets) ==
  IF Len(buckets) = 0 \/ st.threw THEN st
  ELSE pass3Loop(pass3Step(st, Head(buckets)), Tail(buckets))

pass3(st) == pass3Loop(st, st.blankRowsByService)


(***************************************************************************)
(* STEP 2 and STEP 4 run after the try block.  Their state is              *)
(*   [map, mergedCount, removedCount, processedFinalIds, threw]            *)
(***************************************************************************)
finalDomainOf(account) ==
  extractDomainFromLink(normalizeLinkForMatching(normalizeEmpty(serviceLinkOf(account))))

\* the scan of STEP 2 (lines 1160-1189): serviceName is not lowercased here
\* the two ways of matching of the final scans (lines 1180-1181, 1301-1302)
sameServiceOrDomain(serviceName, accService, domain, accDomain) ==
  \/ ~isEmpty(serviceName) /\ ~isEmpty(accService) /\ serviceName = accService
  \/ ~isEmpty(domain) /\ ~isEmpty(accDomain) /\ domain = accDomain

step2Matches(account, acc) ==
  /\ emailOf(acc) = toLowerCase(normalizeEmpty(account.accountEmail))
  /\ passwordOf(acc) = passwordOf(account)
  /\ sameServiceOrDomain(normalizeEmpty(account.service), serviceOf(acc),
                         finalDomainOf(account), domainOf(acc))

\* the merge key of STEP 2 and STEP 4 (lines 1146-1148, 1267-1269)
finalMergeKey(account) ==
  IF ~isEmpty(normalizeEmpty(account.service))
  THEN keyOf(emailOf(account), passwordOf(account), serviceOf(account))
  ELSE keyOf(emailOf(account), passwordOf(account), finalDomainOf(account))

\* the entry STEP 2 merges the record into (lines 1151-1190): the entry under
\* mergeKey, else the first entry the scan matches, else 0
step2Target(fs, account, mergeKey) ==
  IF mapHas(fs.map, mergeKey) THEN mapIndex(fs.map, mergeKey)
  ELSE firstIndex(Len(fs.map), LAMBDA k : step2Matches(account, fs.map[k].val))

\* the merge or the new entry of STEP 2 (lines 1151-1195)
step2Store(fs, account, mergeKey, target) ==
  IF target # 0
  THEN IF mergeThrows(fs.map[target].val, account)
       THEN [fs EXCEPT !.mergedCount = @ + 1, !.threw = TRUE]
       ELSE [fs EXCEPT
               !.mergedCount = @ + 1,
               !.map = mapSet(@, fs.map[target].key,
                         mergeAccountsWithLinks(fs.map[target].val, account))]
  ELSE [fs EXCEPT !.map = mapSet(@, mergeKey, account)]

step2Keyed(fs, account, mergeKey) ==
  step2Store(fs, account, mergeKey, step2Target(fs, account, mergeKey))

\* one iteration of STEP 2 (lines 1120-1196)
step2Step(fs, account) ==
  IF /\ isEmpty(normalizeEmpty(account.accountEmail))
     /\ isEmpty(normalizeEmpty(account.service))
     /\ isEmpty(normalizeEmpty(serviceLinkOf(account)))
  THEN [fs EXCEPT !.removedCount = @ + 1]
  ELSE step2Keyed(fs, account, finalMergeKey(account))

RECURSIVE step2Loop(_, _)
step2Loop(fs, mergedAccounts) ==
  IF Len(mergedAccounts) = 0 \/ fs.threw THEN fs
  ELSE step2Loop(step2Step(fs, Head(mergedAccounts)), Tail(mergedAccounts))

step2(st) ==
  step2Loop([map |-> <<>>, mergedCount |-> st.mergedCount,
             removedCount |-> st.removedCount, processedFinalIds |-> {},
             threw |-> FALSE],
            mapValues(st.mergeMap))

\* the scan of STEP 4 (lines 1281-1311)
step4Matches(account, acc) ==
  /\ emailOf(acc) = toLowerCase(normalizeEmpty(account.accountEmail))
  /\ passwordOf(acc) = passwordOf(account)
  /\ sameServiceOrDomain(serviceOf(account), serviceOf(acc),
                         domainOf(account), domainOf(acc))

\* the merge key of STEP 4 (lines 1267-1269)
step4MergeKey(account) ==
  IF ~isEmpty(serviceOf(account))
  THEN keyOf(toLowerCase(normalizeEmpty(account.accountEmail)), passwordOf(account),
             serviceOf(account))
  ELSE keyOf(toLowerCase(normalizeEmpty(account.accountEmail)), passwordOf(account),
             extractDomainFromLink(normalizeLinkForMatching(serviceLinkOf(account))))

\* the entry STEP 4 merges the record into (lines 1271-1311): the entry under
\* mergeKey, else the first entry the scan matches, else 0
step4Target(fs, account, mergeKey) ==
  IF mapHas(fs.map, mergeKey) THEN mapIndex(fs.map, mergeKey)
  ELSE firstIndex(Len(fs.map), LAMBDA k : step4Matches(account, fs.map[k].val))

\* the merge or the new entry of STEP 4 (lines 1271-1317)
step4Store(fs, account, mergeKey, target) ==
  IF target # 0
  THEN IF mergeThrows(fs.map[target].val, account)
       THEN [fs EXCEPT !.mergedCount = @ + 1, !.threw = TRUE]
       ELSE [fs EXCEPT
               !.mergedCount = @ + 1,
               !.map = mapSet(@, fs.map[target].key,
                         mergeAccountsWithLinks(fs.map[target].val, account)),
               !.processedFinalIds = @ \cup {account.id}]
  ELSE [fs EXCEPT !.map = mapSet(@, mergeKey, account),
                  !.processedFinalIds = @ \cup {account.id}]

step4Keyed(fs, account, mergeKey) ==
  step4Store(fs, account, mergeKey, step4Target(fs, account, mergeKey))

\* faulty variant: the final pass keeps every record it is given
step4StepKeepsDuplicates(fs, account) ==
  IF account.id \in fs.processedFinalIds THEN fs
  ELSE [fs EXCEPT !.map = Append(@, [key |-> step4MergeKey(account), val |-> account]),
                  !.processedFinalIds = @ \cup {account.id}]

\* one iteration of STEP 4 (lines 1246-1318)
step4Step(fs, account) ==
  IF account.id \in fs.processedFinalIds THEN fs
  ELSE step4Keyed(fs, account, step4MergeKey(account))

RECURSIVE step4Loop(_, _)
step4Loop(fs, finalAccounts) ==
  IF Len(finalAccounts) = 0 \/ fs.threw THEN fs
  ELSE step4Loop(step4Step(fs, Head(finalAccounts)), Tail(finalAccounts))

step4(fs) ==
  IF fs.threw THEN fs
  ELSE step4Loop([map |-> <<>>, mergedCount |-> fs.mergedCount,
                  removedCount |-> fs.removedCount, processedFinalIds |-> {},
                  threw |-> FALSE],
                 mapValues(fs.map))

(***************************************************************************)
(* What a call of consolidateAccounts gives its caller: a                  *)
(* ConsolidationResult (status "ok"), the fallback of the catch block      *)
(* (status "fallback"), or the exception itself (status "exception").      *)
(***************************************************************************)
RECURSIVE fallbackAccounts(_)
fallbackAccounts(accounts) ==
  IF Len(accounts) = 0 THEN <<>>
  ELSE <<newGroup(Head(accounts), Head(accounts).source)>>
         \o fallbackAccounts(Tail(accounts))

fallbackResult(accounts) ==
  [status |-> "fallback", accounts |-> fallbackAccounts(accounts),
   mergedCount |-> 0, removedCount |-> 0]

thrownResult ==
  [status |-> "exception", accounts |-> <<>>, mergedCount |-> 0, removedCount |-> 0]

finalResult(fs) ==
  IF fs.threw THEN thrownResult
  ELSE [status |-> "ok", accounts |-> mapValues(fs.map),
        mergedCount |-> fs.mergedCount, removedCount |-> fs.removedCount]

\* st is the engine state as the try block ends or throws
resultAfterTry(accounts, st) ==
  IF st.threw THEN fallbackResult(accounts) ELSE finalResult(step4(step2(st)))

consolidateAccounts(accounts) ==
  resultAfterTry(accounts, pass3(pass2(pass1(emptyEngine, accounts), accounts)))


(***************************************************************************)
(* The inputs of the model.  A record of the input list is built from a    *)
(* template (the fields a parser fills in) and its position in the list,   *)
(* which gives its id, its source label and its discovery time.            *)
(***************************************************************************)
MaxRecords == 3

RecordIds == <<"r1", "r2", "r3", "r4", "r5", "r6">>
RecordSources == <<"Chrome (CSV)", "Apple (Export)", "Gmail (Takeout)", "Chrome (CSV)",
                   "Apple (Export)", "Gmail (Takeout)">>
RecordTimes == <<2, 1, 3, 5, 4, 6>>

Template(service, accountEmail, password, link, username, strength, recommendation) ==
  [service |-> service, accountEmail |-> accountEmail, password |-> password,
   link |-> link, username |-> username, passwordStrength |-> strength,
   passwordRecommendation |-> recommendation]

\* the DiscoveredAccount at position k of an input list
Account(tpl, k) ==
  [id |-> RecordIds[k], service |-> tpl.service, accountEmail |-> tpl.accountEmail,
   source |-> RecordSources[k], discoveredAt |-> RecordTimes[k],
   metadata |-> [link |-> tpl.link, username |-> tpl.username,
                 password |-> tpl.password,
                 passwordStrength |-> tpl.passwordStrength,
                 passwordRecommendation |-> tpl.passwordRecommendation,
                 platform |-> Undefined],
   allSources |-> <<>>, firstDiscoveredAt |-> 0, lastDiscoveredAt |-> 0,
   members |-> {RecordIds[k]}]

\* one account (u@x.com, p) seen under service names and links that overlap
CoreTemplates ==
  {Template(s, "u@x.com", "p", l, Undefined, Undefined, Undefined) :
     s \in {"Amazon", "Prime", ""},
     l \in {LinkNone, LinkStr("https://amazon.com"), LinkStr("https://prime.com")}}

\* service ladder: "Amazon Prime" matches both other names, which do not match
LadderTemplates ==
  {Template(s, "u@x.com", "p", LinkNone, Undefined, Undefined, Undefined) :
     s \in {"Amazon", "Amazon Prime", "Prime"}}

\* the same Spotify account exported by two sources
SpotifyFirst ==
  Template("Spotify", "u@x.com", "p", LinkStr("https://spotify.com"),
           Undefined, Undefined, Undefined)
SpotifySecond ==
  Template("spotify.com", "U@X.com", "p", LinkStr("https://www.spotify.com/login"),
           Undefined, Undefined, Undefined)
SpotifyTemplates == {SpotifyFirst, SpotifySecond}

\* filled rows with and without a username, rows with blank credentials, and
\* a row with blank credentials and no service name
BlankTemplates ==
  {Template("Netflix", "u@x.com", "p", LinkNone, "alice", Undefined, Undefined),
   Template("Netflix", "u@x.com", "p", LinkNone, "bob", Undefined, Undefined),
   Template("Netflix", "u@x.com", "p", LinkNone, Undefined, Undefined, Undefined),
   Template("netflix", "", "q", LinkNone, "bob", Undefined, Undefined),
   Template("Netflix", "v@x.com", "", LinkNone, Undefined, Undefined, Undefined),
   Template("Hulu", "", "", LinkNone, Undefined, Undefined, Undefined),
   Template("", "", "", LinkNone, Undefined, Undefined, Undefined)}

\* password strengths of one account, and of a blank row of its service
StrengthTemplates ==
  {Template("Netflix", "u@x.com", "p", LinkNone, Undefined, s, Undefined) :
     s \in {Undefined, "weak", "moderate", "strong"}}
  \cup {Template("Netflix", "", "", LinkNone, Undefined, "weak", Undefined)}

\* rows whose passwordRecommendation is not a string
MalformedTemplates ==
  {Template(c[1], c[2], c[3], LinkStr("https://netflix.com"), Undefined, Undefined, r) :
     c \in {<<"Netflix", "u@x.com", "p">>, <<"Prime", "u@x.com", "p">>,
            <<"Netflix", "", "">>, <<"Hulu", "", "">>},
     r \in {Undefined, NotAString}}

\* two services of one person, a second person sharing the password, and a
\* blank row that carries the first person's email
FinalPassTemplates ==
  {Template("Netflix", "v@x.com", "p", LinkStr("https://netflix.com"),
            Undefined, Undefined, Undefined),
   Template("Hulu", "u@x.com", "p", LinkStr("https://netflix.com"),
            Undefined, Undefined, Undefined),
   Template("Hulu", "v@x.com", "p", LinkStr("https://hulu.com"),
            Undefined, Undefined, Undefined),
   Template("Hulu", "v@x.com", "", LinkNone, Undefined, Undefined, Undefined)}

\* one account whose link arrives in every shape: absent, one link, a
\* comma-joined string, an array of links, an array without links
LinkShapeTemplates ==
  {Template("Netflix", "u@x.com", "p", l, Undefined, Undefined, Undefined) :
     l \in {LinkNone, LinkStr("https://netflix.com"),
            LinkStr("https://netflix.com, https://NETFLIX.com"),
            LinkArr(<<"https://help.netflix.com", "https://netflix.com">>),
            LinkArr(<<>>)}}

MaxScenarioRecords == 4

Families ==
  <<[templates |-> CoreTemplates, max |-> MaxRecords],
    [templates |-> LadderTemplates, max |-> MaxRecords],
    [templates |-> SpotifyTemplates, max |-> MaxRecords],
    [templates |-> BlankTemplates, max |-> MaxRecords],
    [templates |-> StrengthTemplates, max |-> MaxRecords],
    [templates |-> MalformedTemplates, max |-> MaxRecords],
    [templates |-> LinkShapeTemplates, max |-> MaxRecords],
    [templates |-> FinalPassTemplates, max |-> MaxScenarioRecords]>>

ListsOf(templates, n) == {[k \in 1..n |-> Account(tpls[k], k)] : tpls \in [1..n -> templates]}

\* rows of one person under three service names ("Netflix Plus" matches both
\* others), one with a passwordRecommendation that is not a string, and a
\* blank row
MissingIdTemplates ==
  {Template(s, "u@x.com", "p", LinkNone, Undefined, Undefined, Undefined) :
     s \in {"Netflix", "Plus", "Netflix Plus"}}
  \cup {Template("Netflix", "u@x.com", "p", LinkNone, Undefined, Undefined, NotAString),
        Template("Netflix", "", "", LinkNone, Undefined, Undefined, Undefined)}

\* the record as a malformed export delivers it: no id
withoutId(account) == [account EXCEPT !.id = ""]

\* the list with the records at the positions in missing delivered without id
withoutIds(accounts, missing) ==
  [k \in 1..Len(accounts) |-> IF k \in missing THEN withoutId(accounts[k]) ELSE accounts[k]]

\* lists in which at least one record has no id
MissingIdLists ==
  UNION {{withoutIds(accounts, missing) :
            accounts \in ListsOf(MissingIdTemplates, n),
            missing \in (SUBSET (1..n)) \ {{}}} : n \in 1..MaxRecords}

\* the platforms a parser reports for a record, if any
Platforms == {Undefined, "", "web", "ios"}

\* the list with the platform of each record set
withPlatforms(accounts, platforms) ==
  [k \in 1..Len(accounts) |->
     [accounts[k] EXCEPT !.metadata.platform = platforms[k]]]

\* records of one account that differ in their platform
PlatformLists ==
  UNION {{withPlatforms(accounts, platforms) :
            accounts \in ListsOf({SpotifyFirst}, n),
            platforms \in [1..n -> Platforms]} : n \in 1..MaxRecords}

InputLists ==
  UNION {UNION {ListsOf(Families[f].templates, n) : n \in 1..Families[f].max} :
           f \in 1..Len(Families)}
  \cup MissingIdLists \cup PlatformLists


(***************************************************************************)
(* The state machine: one call of consolidateAccounts on input, pass by    *)
(* pass, and the caller feeding the accounts it got back into a second     *)
(* call (cleanDuplicates on an already consolidated list).                 *)
(***************************************************************************)
VARIABLES
  input,      \* the accounts argument of the call
  phase,      \* "call", "pass1", "pass2", "pass3", "step2", "done"
  st,         \* mergeMap, blankRowsByService and the counters inside the try block
  fs,         \* finalAccountsMap / finalMergeMap and the counters after it
  result,     \* what the caller got from the call that returned last
  round,      \* 1 for the first call, 2 for the call on the first call's accounts
  first,      \* the result of the first call
  links,      \* three link values a, b, c given to combineLinkStrings
  combined,   \* what combineLinkStrings returned for them so far
  match,      \* two names or two links and what the matchers answered for them
  norm,       \* a raw record and what normalizeAccount returned for it
  master,     \* the master list of the renderer and a cleanDuplicates in flight
  limiter,    \* the RateLimiter's state per source and its clock
  heap        \* the objects of one call of consolidateAccounts and its maps of references

engineVars == <<input, phase, st, fs, result, round, first>>
linkVars == <<links, combined>>
vars == <<input, phase, st, fs, result, round, first, links, combined, match, norm, master, limiter, heap>>

\* the value of a part of the application that the behaviour does not use
Idle == "<idle>"
outsideEngine == <<links, combined, match, norm, master, limiter, heap>>
outsideLinks == <<engineVars, match, norm, master, limiter, heap>>
outsideMatch == <<engineVars, links, combined, norm, master, limiter, heap>>

noResult == [status |-> "none", accounts |-> <<>>, mergedCount |-> 0, removedCount |-> 0]
noFinal == [map |-> <<>>, mergedCount |-> 0, removedCount |-> 0,
            processedFinalIds |-> {}, threw |-> FALSE]

\* a call of combineLinkStrings that has not been made
NotCombined == "<not combined>"
noLinks == [a |-> LinkNone, b |-> LinkNone, c |-> LinkNone]
notCombined ==
  [aa |-> NotCombined, ab |-> NotCombined, bc |-> NotCombined,
   left |-> NotCombined, right |-> NotCombined]

\* no call of consolidateAccounts is under way
engineIdle(name) ==
  /\ input = <<>>
  /\ phase = name
  /\ st = emptyEngine
  /\ fs = noFinal
  /\ result = noResult
  /\ round = 1
  /\ first = noResult

Init ==
  /\ links = noLinks
  /\ combined = notCombined
  /\ match = Idle /\ norm = Idle /\ master = Idle /\ limiter = Idle /\ heap = Idle
  /\ input \in InputLists
  /\ phase = "call"
  /\ st = emptyEngine
  /\ fs = noFinal
  /\ result = noResult
  /\ round = 1
  /\ first = noResult

\* lines 672-923
Pass1 ==
  /\ phase = "call"
  /\ st' = pass1(emptyEngine, input)
  /\ phase' = "pass1"
  /\ UNCHANGED <<input, fs, result, round, first>>
  /\ UNCHANGED outsideEngine

\* lines 925-1062
Pass2 ==
  /\ phase = "pass1" /\ ~st.threw
  /\ st' = pass2(st, input)
  /\ phase' = "pass2"
  /\ UNCHANGED <<input, fs, result, round, first>>
  /\ UNCHANGED outsideEngine

\* lines 1064-1098
Pass3 ==
  /\ phase = "pass2" /\ ~st.threw
  /\ st' = pass3(st)
  /\ phase' = "pass3"
  /\ UNCHANGED <<input, fs, result, round, first>>
  /\ UNCHANGED outsideEngine

\* the catch block, lines 1099-1112
Catch ==
  /\ phase \in {"pass1", "pass2", "pass3"} /\ st.threw
  /\ result' = fallbackResult(input)
  /\ first' = IF round = 1 THEN fallbackResult(input) ELSE first
  /\ phase' = "done"
  /\ UNCHANGED <<input, st, fs, round>>
  /\ UNCHANGED outsideEngine

\* lines 1114-1199
Step2 ==
  /\ phase = "pass3" /\ ~st.threw
  /\ fs' = step2(st)
  /\ phase' = "step2"
  /\ UNCHANGED <<input, st, result, round, first>>
  /\ UNCHANGED outsideEngine

\* lines 1241-1325, and the exception of STEP 2 or STEP 4 leaving the function
Step4 ==
  /\ phase = "step2"
  /\ fs' = step4(fs)
  /\ result' = finalResult(fs')
  /\ first' = IF round = 1 THEN result' ELSE first
  /\ phase' = "done"
  /\ UNCHANGED <<input, st, round>>
  /\ UNCHANGED outsideEngine

\* the list a caller passes to the next call: the accounts of the last result
RECURSIVE asInput(_)
asInput(accounts) ==
  IF Len(accounts) = 0 THEN <<>>
  ELSE <<[Head(accounts) EXCEPT !.members = {Head(accounts).id}]>>
         \o asInput(Tail(accounts))

\* consolidateAccounts called again on the accounts of the first call
Reconsolidate ==
  /\ phase = "done" /\ round = 1 /\ result.status = "ok"
  /\ input' = asInput(result.accounts)
  /\ round' = 2
  /\ phase' = "call"
  /\ st' = emptyEngine
  /\ fs' = noFinal
  /\ UNCHANGED <<result, first>>
  /\ UNCHANGED outsideEngine

Next == Pass1 \/ Pass2 \/ Pass3 \/ Catch \/ Step2 \/ Step4 \/ Reconsolidate

Spec == Init /\ [][Next]_vars


(***************************************************************************)
(* combineLinkStrings on its own: three link values a, b, c of every shape *)
(* metadata.link takes (absent, empty, one link, comma-joined links, an    *)
(* array of links; with blanks, empty entries and differing case), and the *)
(* calls combine(a, a), combine(a, b), combine(b, c),                      *)
(* combine(combine(a, b), c) and combine(a, combine(b, c)) in any order.   *)
(***************************************************************************)
LinkValues ==
  {LinkNone, LinkStr(""), LinkStr("a.com"), LinkStr("A.com"),
   LinkStr("a.com,b.com"), LinkStr(" B.com , a.com,,none"),
   LinkArr(<<>>), LinkArr(<<"b.com", "a.com">>),
   LinkArr(<<" A.com ", "", "n/a", "c.com">>)}

InitLinks ==
  /\ links \in [{"a", "b", "c"} -> LinkValues]
  /\ combined = notCombined
  /\ engineIdle("links")
  /\ match = Idle /\ norm = Idle /\ master = Idle /\ limiter = Idle /\ heap = Idle

CombineSelf ==
  /\ phase = "links" /\ combined.aa = NotCombined
  /\ combined' = [combined EXCEPT !.aa = combineLinkStrings(links.a, links.a)]
  /\ UNCHANGED <<links, outsideLinks>>

CombinePair ==
  /\ phase = "links" /\ combined.ab = NotCombined
  /\ combined' = [combined EXCEPT !.ab = combineLinkStrings(links.a, links.b)]
  /\ UNCHANGED <<links, outsideLinks>>

CombineTail ==
  /\ phase = "links" /\ combined.bc = NotCombined
  /\ combined' = [combined EXCEPT !.bc = combineLinkStrings(links.b, links.c)]
  /\ UNCHANGED <<links, outsideLinks>>

CombineLeft ==
  /\ phase = "links" /\ combined.ab # NotCombined /\ combined.left = NotCombined
  /\ combined' = [combined EXCEPT
                    !.left = combineLinkStrings(LinkStr(combined.ab), links.c)]
  /\ UNCHANGED <<links, outsideLinks>>

CombineRight ==
  /\ phase = "links" /\ combined.bc # NotCombined /\ combined.right = NotCombined
  /\ combined' = [combined EXCEPT
                    !.right = combineLinkStrings(links.a, LinkStr(combined.bc))]
  /\ UNCHANGED <<links, outsideLinks>>

NextLinks == CombineSelf \/ CombinePair \/ CombineTail \/ CombineLeft \/ CombineRight

LinkSpec == InitLinks /\ [][NextLinks]_vars


(***************************************************************************)
(* The matchers on their own: areServicesSimilar on two service names and  *)
(* areDomainsRelated on two links, each asked in both argument orders.     *)
(***************************************************************************)
ServiceNames ==
  {"", "n/a", "ab", "Amazon", "amazon inc", "Amazon Prime", "Prime",
   "Disney Plus", "Disneyplus", "The Amazon App"}

MatchLinks ==
  {"", "bold.com", "https://bold.com", "https://bold.org", "https://bold.net",
   "https://bold.de", "https://app.bold.com", "https://www.bold.io/login",
   "https://embolden.com", "https://old.com"}

NotAsked == "not asked"
answerOf(b) == IF b THEN "true" ELSE "false"

InitMatch ==
  /\ match \in [kind : {"services"}, a : ServiceNames, b : ServiceNames,
                 answer : {NotAsked}, swapped : {NotAsked}]
              \cup [kind : {"links"}, a : MatchLinks, b : MatchLinks,
                     answer : {NotAsked}, swapped : {NotAsked}]
  /\ engineIdle("match")
  /\ links = noLinks /\ combined = notCombined
  /\ norm = Idle /\ master = Idle /\ limiter = Idle /\ heap = Idle

AskServices ==
  /\ match.kind = "services" /\ match.answer = NotAsked
  /\ match' = [match EXCEPT !.answer = answerOf(areServicesSimilar(match.a, match.b))]
  /\ UNCHANGED outsideMatch

AskServicesSwapped ==
  /\ match.kind = "services" /\ match.swapped = NotAsked
  /\ match' = [match EXCEPT !.swapped = answerOf(areServicesSimilar(match.b, match.a))]
  /\ UNCHANGED outsideMatch

AskDomains ==
  /\ match.kind = "links" /\ match.answer = NotAsked
  /\ match' = [match EXCEPT !.answer = answerOf(areDomainsRelated(match.a, match.b))]
  /\ UNCHANGED outsideMatch

AskDomainsSwapped ==
  /\ match.kind = "links" /\ match.swapped = NotAsked
  /\ match' = [match EXCEPT !.swapped = answerOf(areDomainsRelated(match.b, match.a))]
  /\ UNCHANGED outsideMatch

NextMatch == AskServices \/ AskServicesSwapped \/ AskDomains \/ AskDomainsSwapped

MatchSpec == InitMatch /\ [][NextMatch]_vars


(***************************************************************************)
(* Properties of consolidateAccounts.                                      *)
(***************************************************************************)
\* the call on input has returned to its caller
returned == phase = "done" /\ result.status = "ok"

\* an output record as the caller sees it (members is the model's history)
recordOf(g) == [f \in (DOMAIN g) \ {"members"} |-> g[f]]
recordsOf(accounts) == {recordOf(accounts[i]) : i \in 1..Len(accounts)}

\* the input records each output record was built from, by id
groupsOf(accounts) == {accounts[i].members : i \in 1..Len(accounts)}

permuted(accounts, p) == [k \in 1..Len(accounts) |-> accounts[p[k]]]

(* C1: idempotence.  Consolidating the accounts that a consolidation      *)
(* returned gives back the same set of records and merges nothing: the     *)
(* second run has mergedCount = 0.                                         *)
C1_Idempotence ==
  (returned /\ round = 2) =>
     /\ recordsOf(result.accounts) = recordsOf(first.accounts)
     /\ result.mergedCount = 0

(* C2: order independence.  For every permutation of the input list the    *)
(* consolidation partitions the input records into the same groups, i.e.    *)
(* the same sets of member ids per output record.                          *)
C2_OrderIndependence ==
  (returned /\ round = 1) =>
     \A p \in Permutations(1..Len(input)) :
        LET other == consolidateAccounts(permuted(input, p))
        IN  other.status = "ok" => groupsOf(other.accounts) = groupsOf(result.accounts)


\* the input records an output record was built from
membersOf(g) == {input[k] : k \in {n \in 1..Len(input) : input[n].id \in g.members}}

\* the MergeKey of a record: lowercased email, password, and the lowercased
\* service name or, when the service name is empty, the first link's domain
MergeKey(g) ==
  <<toLowerCase(normalizeEmpty(g.accountEmail)),
    normalizeEmpty(orEmpty(g.metadata.password)),
    IF ~isEmpty(g.service) THEN toLowerCase(normalizeEmpty(g.service))
    ELSE extractDomainFromLink(normalizeLinkForMatching(firstLink(g.metadata.link)))>>

C4_NoLoss ==
  returned =>
     \A i \in 1..Len(result.accounts) :
        \A r \in membersOf(result.accounts[i]) :
           /\ ~isEmpty(r.metadata.username) =>
                 result.accounts[i].metadata.username = r.metadata.username
           /\ ~isEmpty(r.metadata.password) =>
                 result.accounts[i].metadata.password = r.metadata.password

(* C4 as amended: if any input record merged into G has a non-empty        *)
(* username (password), G's username (password) is non-empty and is the    *)
(* username (password) of one of the input records merged into G; of two   *)
(* different non-empty values only one survives.                           *)
C4_NoLossExistingFirst ==
  returned =>
     \A i \in 1..Len(result.accounts) :
        LET g == result.accounts[i]
            rs == membersOf(g)
        IN  /\ (\E r \in rs : ~isEmpty(r.metadata.username)) =>
                  /\ ~isEmpty(g.metadata.username)
                  /\ \E r \in rs : r.metadata.username = g.metadata.username
            /\ (\E r \in rs : ~isEmpty(r.metadata.password)) =>
                  /\ ~isEmpty(g.metadata.password)
                  /\ \E r \in rs : r.metadata.password = g.metadata.password

\* a group built from records with two different usernames keeps one of them
C4_Witness ==
  /\ returned
  /\ \E i \in 1..Len(result.accounts) :
        \E r1, r2 \in membersOf(result.accounts[i]) :
           /\ ~isEmpty(r1.metadata.username) /\ ~isEmpty(r2.metadata.username)
           /\ r1.metadata.username # r2.metadata.username
           /\ result.accounts[i].metadata.username = r1.metadata.username

\* the smallest strength priority among records (weak 1 < moderate 2 < strong 3 < unset 4)
weakestPriority(rs) ==
  CHOOSE p \in {getPasswordStrengthPriority(r.metadata.passwordStrength) : r \in rs} :
     \A r \in rs : p <= getPasswordStrengthPriority(r.metadata.passwordStrength)

(* C5: worst-of invariant.  If any input record merged into an output      *)
(* group has passwordStrength 'weak', the output record's passwordStrength *)
(* is 'weak'; after any sequence of merges the group holds the weakest     *)
(* value seen under the order weak < moderate < strong < unset.            *)
C5_WorstOf ==
  returned =>
     \A i \in 1..Len(result.accounts) :
        LET g == result.accounts[i]
            rs == membersOf(g)
        IN  /\ (\E r \in rs : r.metadata.passwordStrength = "weak") =>
                  g.metadata.passwordStrength = "weak"
            /\ rs # {} =>
                  getPasswordStrengthPriority(g.metadata.passwordStrength)
                     = weakestPriority(rs)

\* a group whose founder is not weak absorbed a weak record and is weak
C5_Witness ==
  /\ returned
  /\ \E i \in 1..Len(result.accounts) :
        \E r1, r2 \in membersOf(result.accounts[i]) :
           /\ r1.id = result.accounts[i].id
           /\ r1.metadata.passwordStrength = "strong"
           /\ r2.metadata.passwordStrength = "weak"
           /\ result.accounts[i].metadata.passwordStrength = "weak"

\* a pass of the call on input raised an exception
failed == st.threw \/ fs.threw

\* every input record as its own output record, nothing merged or removed
isFallbackOf(res, accounts) ==
  /\ Len(res.accounts) = Len(accounts)
  /\ \A k \in 1..Len(accounts) :
        /\ res.accounts[k].id = accounts[k].id
        /\ res.accounts[k].service = accounts[k].service
        /\ res.accounts[k].accountEmail = accounts[k].accountEmail
        /\ res.accounts[k].metadata = accounts[k].metadata
        /\ res.accounts[k].members = {accounts[k].id}
  /\ res.mergedCount = 0
  /\ res.removedCount = 0

(* C6: no exception raised in any pass of consolidateAccounts reaches the   *)
(* caller; on internal failure the result is every original input record   *)
(* as its own singleton output record, with mergedCount = 0 and            *)
(* removedCount = 0.                                                       *)
C6_FallbackOnFailure ==
  (phase = "done" /\ failed) =>
     /\ result.status # "exception"
     /\ isFallbackOf(result, input)

\* every input record is the founder or a member of some output record
nothingLost ==
  UNION groupsOf(result.accounts) = {input[k].id : k \in 1..Len(input)}

(* C7: mergedCount is the number of record absorptions, each counted once  *)
(* across all passes: when every input record ends up in an output record, *)
(* mergedCount is the number of input records minus the number of output   *)
(* records, so two duplicate records yield mergedCount = 1.                *)
C7_MergedCountOnce ==
  (returned /\ nothingLost) =>
     result.mergedCount = Len(input) - Len(result.accounts)

SpotifyPair == <<Account(SpotifyFirst, 1), Account(SpotifySecond, 2)>>

\* two filled records, each with an id, with the same email
\* (case-insensitive), the same password and matching service names
sameAccount(a, b) ==
  /\ a.id # "" /\ b.id # ""
  /\ ~hasEmptyCredentials(a) /\ ~hasEmptyCredentials(b)
  /\ emailOf(a) = emailOf(b)
  /\ passwordOf(a) = passwordOf(b)
  /\ ~isEmpty(a.service) /\ ~isEmpty(b.service)
  /\ (serviceOf(a) = serviceOf(b) \/ areServicesSimilar(b.service, a.service))

(* C8: consolidating {Spotify, u@x.com, p, https://spotify.com} followed   *)
(* by {spotify.com, U@X.com, p, https://www.spotify.com/login} yields      *)
(* exactly one output record whose metadata.link is                        *)
(* 'https://spotify.com,https://www.spotify.com/login'; two records with   *)
(* the same email (case-insensitive), the same password and matching       *)
(* service names collapse into one record with existing-then-incoming link *)
(* order.                                                                  *)
C8_SpotifyScenario ==
  /\ (returned /\ round = 1 /\ input = SpotifyPair) =>
        /\ Len(result.accounts) = 1
        /\ result.accounts[1].metadata.link
              = LinkStr("https://spotify.com,https://www.spotify.com/login")
  /\ (returned /\ round = 1 /\ Len(input) = 2 /\ sameAccount(input[1], input[2])) =>
        /\ Len(result.accounts) = 1
        /\ orEmpty(linkToString(result.accounts[1].metadata.link))
              = combineLinkStrings(input[1].metadata.link, input[2].metadata.link)

C8_Witness ==
  /\ returned /\ round = 1 /\ input = SpotifyPair
  /\ Len(result.accounts) = 1
  /\ result.accounts[1].members = {"r1", "r2"}

\* the blank rows that wait in the buckets, and the ones a filled group of
\* the same lowercased service name waits for
blankRowsOf(s) ==
  UNION {SeqToSet(s.blankRowsByService[b].val) : b \in 1..Len(s.blankRowsByService)}

filledGroupsFor(s, row) ==
  {k \in 1..Len(s.mergeMap) :
     toLowerCase(normalizeEmpty(s.mergeMap[k].val.service))
        = toLowerCase(normalizeEmpty(row.service))}

matchedBlankRows(s) == {row \in blankRowsOf(s) : filledGroupsFor(s, row) # {}}

\* buckets without a filled group keep their first row and remove the others
unmatchedBuckets(s) ==
  {b \in 1..Len(s.blankRowsByService) :
     \A row \in SeqToSet(s.blankRowsByService[b].val) : filledGroupsFor(s, row) = {}}

(* C9: blank absorption.  Every blank-credential record whose lowercased   *)
(* service name equals the service name of an existing filled group is     *)
(* merged into that group in pass 3; no new output record is created for   *)
(* it and removedCount increases by exactly 1 for each such record.        *)
C9_BlankAbsorption ==
  [][(phase = "pass2" /\ phase' = "pass3" /\ ~st'.threw) =>
       /\ \A row \in matchedBlankRows(st) :
             \E k \in filledGroupsFor(st, row) :
                /\ st'.mergeMap[k].key = st.mergeMap[k].key
                /\ st'.mergeMap[k].val.id = st.mergeMap[k].val.id
                /\ row.id \in st'.mergeMap[k].val.members
       /\ Len(st'.mergeMap) = Len(st.mergeMap) + Cardinality(unmatchedBuckets(st))
       /\ st'.removedCount
             = st.removedCount + Cardinality(matchedBlankRows(st))
                + (Cardinality(blankRowsOf(st) \ matchedBlankRows(st))
                     - Cardinality(unmatchedBuckets(st)))]_vars

\* pass 3 has merged two blank rows into a filled group
C9_Witness ==
  /\ phase = "pass3" /\ ~st.threw
  /\ st.removedCount = 2
  /\ \E k \in 1..Len(st.mergeMap) :
        \E r1, r2 \in blankRowsOf(st) :
           /\ r1.id # r2.id
           /\ {r1.id, r2.id} \subseteq st.mergeMap[k].val.members
           /\ st.mergeMap[k].val.id \notin {r1.id, r2.id}

\* two filled records with the same email and password, service names that
\* do not match and links of unrelated domains
unrelatedServices(a, b) ==
  /\ ~hasEmptyCredentials(a) /\ ~hasEmptyCredentials(b)
  /\ emailOf(a) = emailOf(b)
  /\ passwordOf(a) = passwordOf(b)
  /\ ~isEmpty(a.service) /\ ~isEmpty(b.service)
  /\ serviceOf(a) # serviceOf(b)
  /\ ~areServicesSimilar(a.service, b.service)
  /\ ~areServicesSimilar(b.service, a.service)
  /\ ~isEmpty(serviceLinkOf(a)) /\ ~isEmpty(serviceLinkOf(b))
  /\ ~linkMatchesAnyInList(serviceLinkOf(a), b.metadata.link)
  /\ ~linkMatchesAnyInList(serviceLinkOf(b), a.metadata.link)
  /\ ~areDomainsRelated(serviceLinkOf(a), serviceLinkOf(b))
  /\ ~areDomainsRelated(serviceLinkOf(b), serviceLinkOf(a))

RECURSIVE withIds(_)
withIds(accounts) ==
  IF Len(accounts) = 0 THEN <<>>
  ELSE (IF Head(accounts).id = "" THEN <<>> ELSE <<Head(accounts)>>)
         \o withIds(Tail(accounts))

hasMissingId(accounts) == \E k \in 1..Len(accounts) : accounts[k].id = ""

\* res is the result for a list, clean the result for its records with id
missingIdAbsent(res, clean) ==
  /\ res.status # "exception"
  /\ \A i \in 1..Len(res.accounts) : res.accounts[i].id # ""
  /\ res.mergedCount = clean.mergedCount
  /\ res.removedCount = clean.removedCount
  /\ groupsOf(res.accounts) = groupsOf(clean.accounts)

missingIdIgnored(res, clean) ==
  /\ res.status = clean.status
  /\ res.mergedCount = clean.mergedCount
  /\ res.removedCount = clean.removedCount
  /\ res.status = "ok" => res.accounts = clean.accounts
  /\ res.status = "fallback" => withIds(res.accounts) = clean.accounts

(* C11 as claimed: a record with a missing id is skipped and is never      *)
(* fatal: it does not appear in the output, does not change mergedCount or *)
(* removedCount, and every other record of the input is grouped exactly as *)
(* if the malformed record were absent.                                    *)
C11_MissingIdSkipped ==
  (phase = "done" /\ round = 1 /\ hasMissingId(input)) =>
     missingIdAbsent(result, consolidateAccounts(withIds(input)))

(* C11 amended: a record with a missing id is skipped by the passes and    *)
(* never changes how the call ends: the call returns, falls back or fails  *)
(* as it does without the record, with the same mergedCount and            *)
(* removedCount; a call that returns normally returns exactly the records  *)
(* it returns without the malformed record, and a call that falls back     *)
(* returns every input record as a singleton, the malformed one included,  *)
(* the others as if it were absent.                                        *)
C11_MissingIdIgnored ==
  (phase = "done" /\ round = 1 /\ hasMissingId(input)) =>
     missingIdIgnored(result, consolidateAccounts(withIds(input)))

\* "Netflix Plus" without id would join the groups of Netflix and Plus
C11_Witness ==
  /\ returned /\ round = 1 /\ Len(input) = 3
  /\ input[1].service = "Netflix" /\ input[1].id # ""
  /\ input[2].service = "Plus" /\ input[2].id # ""
  /\ input[3].service = "Netflix Plus" /\ input[3].id = ""
  /\ groupsOf(result.accounts) = {{input[1].id}, {input[2].id}}


\* the input records with blank credentials that are not output records of
\* their own: dropped in pass 1, absorbed by a filled group, or discarded
blankRecordsRemoved(accounts, res) ==
  {k \in 1..Len(accounts) :
     /\ accounts[k].id # ""
     /\ hasEmptyCredentials(accounts[k])
     /\ \A i \in 1..Len(res.accounts) : res.accounts[i].id # accounts[k].id}

(* C12: removedCount equals the number of input records that were dropped  *)
(* or absorbed as blank: every blank-credential record with an empty       *)
(* service name dropped in pass 1, every group dropped in the drop pass,   *)
(* and every blank-credential record absorbed or discarded in pass 3 is    *)
(* counted exactly once.                                                   *)
C12_RemovedCount ==
  (returned /\ round = 1) =>
     result.removedCount = Cardinality(blankRecordsRemoved(input, result))


\* the position in the input of the last record merged into g
lastMemberOf(g) ==
  CHOOSE k \in 1..Len(input) :
    /\ input[k].id \in g.members
    /\ \A n \in 1..Len(input) : input[n].id \in g.members => n <= k

(* C13: when an incoming record is merged into an existing group, the      *)
(* merged record's id is the incoming record's id (latest wins), so the id *)
(* of an output record is the id of the last-processed input record merged *)
(* into it.                                                                *)
C13_LatestIdWins ==
  (returned /\ round = 1) =>
     \A i \in 1..Len(result.accounts) :
        result.accounts[i].id = input[lastMemberOf(result.accounts[i])].id


\* the groups the engine holds at this point of the call
currentGroups ==
  IF phase \in {"pass1", "pass2", "pass3"} /\ ~st.threw THEN mapValues(st.mergeMap)
  ELSE IF phase = "step2" /\ ~fs.threw THEN mapValues(fs.map)
  ELSE IF returned THEN result.accounts
  ELSE <<>>

\* the groups that pass 1 founds for the records of the input
foundedGroups ==
  {newGroup(input[k], recomputedSourceOf(input[k])) : k \in 1..Len(input)}

\* the existing sides of the merges looked at: a group the engine holds or
\* founds; the incoming sides: an input record or a group
existingSides == SeqToSet(currentGroups) \cup foundedGroups
incomingSides == SeqToSet(currentGroups) \cup SeqToSet(input)

\* existing first, incoming if existing is empty; empty only if both are
existingFirst(merged, existingValue, incomingValue) ==
  /\ ~isEmpty(existingValue) => merged = existingValue
  /\ (isEmpty(existingValue) /\ ~isEmpty(incomingValue)) => merged = incomingValue
  /\ (isEmpty(existingValue) /\ isEmpty(incomingValue)) => isEmpty(merged)

credentialsExistingFirst(merged, existing, incoming) ==
  /\ existingFirst(merged.metadata.username, existing.metadata.username,
                   incoming.metadata.username)
  /\ existingFirst(merged.metadata.password, existing.metadata.password,
                   incoming.metadata.password)

\* after is before with more records merged into it, and holds a username
\* and a password if before does
credentialsKept(before, after) ==
  (before.members \subseteq after.members) =>
     /\ ~isEmpty(before.metadata.username) => ~isEmpty(after.metadata.username)
     /\ ~isEmpty(before.metadata.password) => ~isEmpty(after.metadata.password)

(* C14: in every merge the result's metadata.username and                  *)
(* metadata.password equal the existing side's value when that is          *)
(* non-empty and otherwise the incoming side's value (an empty value when  *)
(* both are empty); across any sequence of merges a non-empty username or  *)
(* password held by a group is never replaced by an empty value.  The      *)
(* merges are those of every group the engine holds or founds with every   *)
(* input record and every group; the sequences are the passes of the call. *)
C14_CredentialsExistingFirst ==
  /\ [](\A e \in existingSides :
          \A i \in incomingSides :
             credentialsExistingFirst(mergeAccountsWithLinks(e, i), e, i))
  /\ [][\A before \in SeqToSet(currentGroups) :
          \A after \in SeqToSet(currentGroups') : credentialsKept(before, after)]_vars

\* a group with username "alice" has absorbed a record with username "bob"
C14_Witness ==
  /\ returned /\ round = 1
  /\ \E i \in 1..Len(result.accounts) :
        /\ result.accounts[i].metadata.username = "alice"
        /\ result.accounts[i].id = input[1].id
        /\ input[1].metadata.username = "alice"
        /\ \E r \in membersOf(result.accounts[i]) : r.metadata.username = "bob"


\* the entries of a link value as written, blanks and empty entries included
rawLinks(link) ==
  IF link.kind = "array" THEN link.a
  ELSE IF link.kind = "string" THEN split(link.s, ",")
  ELSE <<>>

\* the entries of a comma-joined result
entriesOf(str) == IF str = "" THEN <<>> ELSE split(str, ",")

\* the position at which link is first seen in all, whatever its case; 0 if never
firstSeen(all, link) ==
  IF \A k \in 1..Len(all) : toLowerCase(trim(all[k])) # toLowerCase(link) THEN 0
  ELSE CHOOSE k \in 1..Len(all) :
         /\ toLowerCase(trim(all[k])) = toLowerCase(link)
         /\ \A n \in 1..(k - 1) : toLowerCase(trim(all[n])) # toLowerCase(link)

\* out lists the trimmed non-empty links of all, each once whatever its
\* case, in the casing and the order in which they are first seen
isDeduplicated(out, all) ==
  /\ \A j \in 1..Len(out) :
        /\ out[j] = trim(out[j]) /\ ~isEmpty(out[j])
        /\ firstSeen(all, out[j]) # 0
        /\ trim(all[firstSeen(all, out[j])]) = out[j]
  /\ \A j, k \in 1..Len(out) :
        /\ j # k => toLowerCase(out[j]) # toLowerCase(out[k])
        /\ j < k => firstSeen(all, out[j]) < firstSeen(all, out[k])
  /\ \A k \in 1..Len(all) :
        ~isEmpty(all[k]) =>
           \E j \in 1..Len(out) : toLowerCase(out[j]) = toLowerCase(trim(all[k]))

(* C15: combineLinkStrings(existing, incoming), with each side a single    *)
(* string, a comma-joined string or an array, returns the comma-joined     *)
(* list of all trimmed non-empty links, de-duplicated case-insensitively,  *)
(* keeping first-seen casing and the existing-then-incoming left-to-right  *)
(* order; combining 'a.com' with 'a.com,b.com' gives exactly               *)
(* 'a.com,b.com'.                                                          *)
C15_CombinedLinks ==
  combined.ab # NotCombined =>
     /\ isDeduplicated(entriesOf(combined.ab), rawLinks(links.a) \o rawLinks(links.b))
     /\ (links.a = LinkStr("a.com") /\ links.b = LinkStr("a.com,b.com")) =>
           combined.ab = "a.com,b.com"

\* an array with blanks and a comma-joined string that repeats one of its
\* links in another case
C15_Witness ==
  /\ links.a = LinkArr(<<" A.com ", "", "n/a", "c.com">>)
  /\ links.b = LinkStr(" B.com , a.com,,none")
  /\ combined.ab = "A.com,c.com,B.com"

(* C16: combineLinkStrings is idempotent and associative over the link     *)
(* values: combine(a, a) equals the de-duplicated a, and                   *)
(* combine(combine(a, b), c) = combine(a, combine(b, c)) including the     *)
(* order and casing of the result.                                         *)
C16_IdempotentAssociative ==
  /\ combined.aa # NotCombined =>
        isDeduplicated(entriesOf(combined.aa), rawLinks(links.a))
  /\ (combined.left # NotCombined /\ combined.right # NotCombined) =>
        combined.left = combined.right

\* three sides that share links in different case and order
C16_Witness ==
  /\ links.a = LinkStr("A.com")
  /\ links.b = LinkArr(<<"b.com", "a.com">>)
  /\ links.c = LinkStr(" B.com , a.com,,none")
  /\ combined.aa = "A.com"
  /\ combined.left = "A.com,b.com"
  /\ combined.right = "A.com,b.com"


\* str is a comma-joined list in which no link occurs twice, whatever its case
withoutDuplicates(str) ==
  \A j, k \in 1..Len(entriesOf(str)) :
     j # k => toLowerCase(trim(entriesOf(str)[j])) # toLowerCase(trim(entriesOf(str)[k]))

(* C17: for every input shape of metadata.link (absent, single string,     *)
(* comma-joined string, array of strings), every output record produced by *)
(* at least one merge has metadata.link, when present, as a single         *)
(* comma-joined string without case-insensitive duplicate entries and      *)
(* never as an array.                                                      *)
C17_LinkIsJoinedString ==
  (returned /\ round = 1) =>
     \A i \in 1..Len(result.accounts) :
        Cardinality(result.accounts[i].members) > 1 =>
           /\ result.accounts[i].metadata.link.kind # "array"
           /\ result.accounts[i].metadata.link.kind = "string" =>
                 withoutDuplicates(result.accounts[i].metadata.link.s)


\* the discovery times of the input records merged into g
timesOf(g) == {r.discoveredAt : r \in membersOf(g)}

(* C18: for every output record, firstDiscoveredAt is the minimum and      *)
(* lastDiscoveredAt the maximum of discoveredAt over all input records     *)
(* merged into it, including when two groups that each already absorbed    *)
(* records are merged with each other in the later passes.                 *)
C18_DiscoveryRange ==
  (returned /\ round = 1) =>
     \A i \in 1..Len(result.accounts) :
        /\ result.accounts[i].firstDiscoveredAt \in timesOf(result.accounts[i])
        /\ result.accounts[i].lastDiscoveredAt \in timesOf(result.accounts[i])
        /\ \A time \in timesOf(result.accounts[i]) :
              /\ result.accounts[i].firstDiscoveredAt <= time
              /\ time <= result.accounts[i].lastDiscoveredAt


\* the source labels of the input records merged into g
sourcesOf(g) == {r.source : r \in membersOf(g)}

(* C19: for every output record, allSources is exactly the set of source   *)
(* labels of the input records merged into it, without duplicates; no      *)
(* label that is not the source of some merged input record ever appears   *)
(* in allSources.  (The claim also fixes first-seen order; the set and the *)
(* absence of duplicates are what is stated here.)                         *)
C19_AllSources ==
  (returned /\ round = 1) =>
     \A i \in 1..Len(result.accounts) :
        /\ SeqToSet(result.accounts[i].allSources) = sourcesOf(result.accounts[i])
        /\ Cardinality(SeqToSet(result.accounts[i].allSources))
              = Len(result.accounts[i].allSources)


\* the existing platform if it is not empty, else the incoming one
platformExistingFirst(merged, existingPlatform, incomingPlatform) ==
  /\ ~isEmpty(existingPlatform) => merged = existingPlatform
  /\ (isEmpty(existingPlatform) /\ ~isEmpty(incomingPlatform)) =>
        merged = incomingPlatform

(* C20: in every merge the result's metadata.platform is the existing      *)
(* record's platform when that is non-empty, and otherwise the incoming    *)
(* record's platform.  The merges are those of every group the engine      *)
(* holds or founds with every input record and every group.                *)
C20_PlatformExistingFirst ==
  phase # "call" =>
     \A e \in existingSides :
        \A i \in incomingSides :
           platformExistingFirst(mergeAccountsWithLinks(e, i).metadata.platform,
                                 e.metadata.platform, i.metadata.platform)


(* C21: service matching is order-independent: for all service names a, b  *)
(* and all links x, y, areServicesSimilar(a, b) = areServicesSimilar(b, a) *)
(* and areDomainsRelated(x, y) = areDomainsRelated(y, x).                  *)
C21_MatchingSymmetric ==
  (match.answer # NotAsked /\ match.swapped # NotAsked) =>
     match.answer = match.swapped

\* a name that contains the other one, and a subdomain of the other link
C21_Witness ==
  \/ /\ match.kind = "services" /\ match.a = "Prime" /\ match.b = "Amazon Prime"
     /\ match.answer = "true" /\ match.swapped = "true"
  \/ /\ match.kind = "links"
     /\ match.a = "https://bold.com" /\ match.b = "https://app.bold.com"
     /\ match.answer = "true" /\ match.swapped = "true"


\* the hostname the matcher compares for a link
hostOf(link) == normalizeLinkForMatching(link)

\* two hostnames with the same base domain and different TLDs
sameBaseOtherTLD(host1, host2) ==
  /\ extractBaseDomain(host1) = extractBaseDomain(host2)
  /\ extractBaseDomain(host1) # ""
  /\ getTLD(host1) # getTLD(host2)

(* C27: two hostnames with the same base domain (second-to-last label) and *)
(* different TLDs are judged the same service by the domain rule only when *)
(* both TLDs are in {com, org, io}.                                        *)
C27_KnownTLDsOnly ==
  (/\ match.kind = "links" /\ match.answer = "true"
   /\ sameBaseOtherTLD(hostOf(match.a), hostOf(match.b))) =>
     /\ isKnownTLD(getTLD(hostOf(match.a)))
     /\ isKnownTLD(getTLD(hostOf(match.b)))

(***************************************************************************)
(* Normalizer (shared/normalizer.ts): validators, extractors, inference    *)
(* and normalizeAccount.  null and undefined are both falsy; the model     *)
(* writes Null for the null the extractors return.                         *)
(***************************************************************************)
Null == "<null>"

truthy(v) == v # Null /\ v # Undefined /\ v # ""

\* [^\s@] of the regular expressions of the normalizer
isEmailChar(c) == ~isSpaceChar(c) /\ c # "@"

\* /^[^\s@]+@[^\s@]+\.[^\s@]+$/ on t, with the @ at position p
emailShapeAt(t, p) ==
  /\ Char(t, p) = "@"
  /\ \A k \in 1..Len(t) : k # p => isEmailChar(Char(t, k))
  /\ \E d \in (p + 2)..(Len(t) - 1) : Char(t, d) = "."

emailShape(t) == \E p \in 2..(Len(t) - 3) : emailShapeAt(t, p)

isValidEmail(email) == truthy(email) /\ emailShape(trim(email))

isValidUrlTrimmed(trimmed, lower) ==
  /\ startsWith(lower, "http://") \/ startsWith(lower, "https://")
  /\ ~includes(trimmed, "@")
  /\ urlHostnameOfTrimmed(trimmed) # UrlThrows

isValidUrl(url) == truthy(url) /\ isValidUrlTrimmed(trim(url), toLowerCase(trim(url)))

MaxServiceNameLength == 200

isValidServiceNameTrimmed(trimmed, lower) ==
  /\ ~includes(trimmed, "@")
  /\ ~(includes(lower, "http://") \/ includes(lower, "https://"))
  /\ Len(trimmed) >= 1 /\ Len(trimmed) <= MaxServiceNameLength

isValidServiceName(name) ==
  truthy(name) /\ isValidServiceNameTrimmed(trim(name), toLowerCase(trim(name)))

\* last index of the run of [^\s@] characters that follows position i
RECURSIVE emailRunEnd(_, _)
emailRunEnd(s, i) ==
  IF i < Len(s) /\ isEmailChar(Char(s, i + 1)) THEN emailRunEnd(s, i + 1) ELSE i

\* first index of the run of [^\s@] characters that precedes position i
RECURSIVE emailRunStart(_, _)
emailRunStart(s, i) ==
  IF i > 1 /\ isEmailChar(Char(s, i - 1)) THEN emailRunStart(s, i - 1) ELSE i

\* /([^\s@]+@[^\s@]+\.[^\s@]+)/ matches around the @ at position p
emailMatchesAt(s, p) ==
  /\ Char(s, p) = "@"
  /\ emailRunStart(s, p) < p
  /\ \E d \in (p + 2)..(emailRunEnd(s, p) - 1) : Char(s, d) = "."

\* the leftmost match: each part of the pattern takes its whole run
emailMatch(s) ==
  IF \E p \in 1..Len(s) : emailMatchesAt(s, p)
  THEN SubSeq(s, emailRunStart(s, CHOOSE p \in 1..Len(s) :
                      emailMatchesAt(s, p)
                      /\ \A q \in 1..(p - 1) : ~emailMatchesAt(s, q)),
                 emailRunEnd(s, CHOOSE p \in 1..Len(s) :
                      emailMatchesAt(s, p)
                      /\ \A q \in 1..(p - 1) : ~emailMatchesAt(s, q)))
  ELSE Null

validEmailOrNull(m) == IF m # Null /\ isValidEmail(m) THEN trim(m) ELSE Null

extractEmail(text) == IF ~truthy(text) THEN Null ELSE validEmailOrNull(emailMatch(text))

\* the string p occurs in s at position i
occursAt(s, p, i) == i + Len(p) - 1 <= Len(s) /\ SubSeq(s, i, i + Len(p) - 1) = p

\* length of the scheme https?:\/\/ of the lowercased string l at i, 0 if none
schemeLenAt(l, i) ==
  IF occursAt(l, "https://", i) THEN 8
  ELSE IF occursAt(l, "http://", i) THEN 7
  ELSE 0

\* /(https?:\/\/[^\s@]+)/i matches at position i
urlMatchesAt(s, l, i) ==
  /\ schemeLenAt(l, i) > 0
  /\ emailRunEnd(s, i + schemeLenAt(l, i) - 1) >= i + schemeLenAt(l, i)

urlMatchFrom(s, l, i) == SubSeq(s, i, emailRunEnd(s, i + schemeLenAt(l, i) - 1))

urlMatch(s, l) ==
  IF \E i \in 1..Len(s) : urlMatchesAt(s, l, i)
  THEN urlMatchFrom(s, l, CHOOSE i \in 1..Len(s) :
                      urlMatchesAt(s, l, i)
                      /\ \A q \in 1..(i - 1) : ~urlMatchesAt(s, l, q))
  ELSE Null

validUrlOrNull(m) == IF m # Null /\ isValidUrl(m) THEN trim(m) ELSE Null

extractUrl(text) ==
  IF ~truthy(text) THEN Null ELSE validUrlOrNull(urlMatch(text, toLowerCase(text)))

\* the known service names of inferServiceNameFromDomain
serviceMap ==
  [googlemail |-> "Gmail", google |-> "Google", yahoo |-> "Yahoo",
   hotmail |-> "Hotmail", outlook |-> "Microsoft Outlook", live |-> "Microsoft",
   msn |-> "Microsoft", aol |-> "AOL", icloud |-> "Apple iCloud",
   apple |-> "Apple", facebook |-> "Facebook", twitter |-> "Twitter/X",
   x |-> "Twitter/X", instagram |-> "Instagram", linkedin |-> "LinkedIn",
   github |-> "GitHub", amazon |-> "Amazon", netflix |-> "Netflix",
   spotify |-> "Spotify", hulu |-> "Hulu", disney |-> "Disney+",
   paypal |-> "PayPal", stripe |-> "Stripe", uber |-> "Uber",
   airbnb |-> "Airbnb", appfolio |-> "Allied", crimson |-> "Crimson",
   domini |-> "DominI"]

\* parts[parts.length - 2] || parts[0], else parts[0] || domainLower
baseNameOfParts(parts, domainLower) ==
  IF Len(parts) >= 2
  THEN (IF parts[Len(parts) - 1] # "" THEN parts[Len(parts) - 1] ELSE parts[1])
  ELSE (IF parts[1] # "" THEN parts[1] ELSE domainLower)

serviceNameOfBase(baseDomain) ==
  IF Len(baseDomain) < 2 THEN Null
  ELSE IF baseDomain \in DOMAIN serviceMap THEN serviceMap[baseDomain]
  ELSE capitalize(baseDomain)

\* domainLower is domain.toLowerCase().replace(/^www\./, '')
serviceNameOfLower(domainLower) ==
  serviceNameOfBase(baseNameOfParts(split(domainLower, "."), domainLower))

inferServiceNameFromDomain(domain) ==
  IF ~truthy(domain) THEN Null ELSE serviceNameOfLower(stripWww(toLowerCase(domain)))

\* input.replace(/\s*\([^)]*\)\s*/g, '')
RECURSIVE stripParentheticals(_)
stripParentheticals(s) ==
  IF Len(s) = 0 THEN ""
  ELSE IF startsWith(trimStart(s), "(") /\ includes(trimStart(s), ")")
       THEN stripParentheticals(
              trimStart(SubSeq(trimStart(s), indexOfChar(trimStart(s), ")") + 1,
                               Len(trimStart(s)))))
       ELSE Char(s, 1) \o stripParentheticals(Tail(s))

TLDs == {"com", "net", "org", "io", "co", "us", "uk", "de", "fr", "ca", "au",
         "jp", "in", "edu", "gov", "app", "dev"}

\* \.(?:com|net|...) matches the lowercased string l at position k
tldAt(l, k) ==
  /\ k <= Len(l) /\ Char(l, k) = "."
  /\ \E t \in TLDs : k + Len(t) <= Len(l) /\ SubSeq(l, k + 1, k + Len(t)) = t

\* ([a-zA-Z0-9-]+) followed by the TLD, from position c: the label, or Null
mainLabelAt(l, c) ==
  IF c <= Len(l) /\ isDomainHead(Char(l, c)) /\ tldAt(l, headRunEnd(l, c) + 1)
  THEN SubSeq(l, c, headRunEnd(l, c))
  ELSE Null

\* ([a-zA-Z0-9-]+\.)? taken first, then skipped
labelsAt(l, b) ==
  IF /\ b <= Len(l) /\ isDomainHead(Char(l, b))
     /\ headRunEnd(l, b) < Len(l) /\ Char(l, headRunEnd(l, b) + 1) = "."
     /\ mainLabelAt(l, headRunEnd(l, b) + 2) # Null
  THEN mainLabelAt(l, headRunEnd(l, b) + 2)
  ELSE mainLabelAt(l, b)

\* (?:www\.)? taken first, then skipped
wwwLabelsAt(l, a) ==
  IF occursAt(l, "www.", a) /\ labelsAt(l, a + 4) # Null
  THEN labelsAt(l, a + 4)
  ELSE labelsAt(l, a)

\* (?:https?:\/\/)? taken first, then skipped: the second group of a match at i
domainMatchAt(l, i) ==
  IF schemeLenAt(l, i) > 0 /\ wwwLabelsAt(l, i + schemeLenAt(l, i)) # Null
  THEN wwwLabelsAt(l, i + schemeLenAt(l, i))
  ELSE wwwLabelsAt(l, i)

\* domainMatch[2]?.toLowerCase() of the leftmost match, or Null
mainDomainOf(l) ==
  IF \E i \in 1..Len(l) : domainMatchAt(l, i) # Null
  THEN domainMatchAt(l, CHOOSE i \in 1..Len(l) :
                      domainMatchAt(l, i) # Null
                      /\ \A q \in 1..(i - 1) : domainMatchAt(l, q) = Null)
  ELSE Null

\* /^[a-zA-Z0-9.-]+\.[a-zA-Z]{2,}$/
isCleanDomain(s) ==
  /\ \A k \in 1..Len(s) : isDomainTail(Char(s, k))
  /\ \E d \in 2..(Len(s) - 2) :
        /\ Char(s, d) = "."
        /\ \A k \in (d + 1)..Len(s) : Char(s, k) \in LowerSet \cup UpperSet

serviceNameOfCleaned(cleaned, mainDomain) ==
  IF mainDomain # Null THEN inferServiceNameFromDomain(mainDomain \o ".com")
  ELSE IF isCleanDomain(cleaned) THEN inferServiceNameFromDomain(cleaned)
  ELSE Null

extractServiceNameOfCleaned(cleaned) ==
  serviceNameOfCleaned(cleaned, mainDomainOf(toLowerCase(cleaned)))

extractServiceNameFromString(text) ==
  IF ~truthy(text) THEN Null
  ELSE extractServiceNameOfCleaned(trim(stripParentheticals(text)))

isAlnumLower(c) == c \in LowerSet \/ c \in DigitSet

\* serviceName.toLowerCase().replace(/[^a-z0-9]/g, '')
RECURSIVE keepAlnum(_)
keepAlnum(s) ==
  IF Len(s) = 0 THEN ""
  ELSE (IF isAlnumLower(Char(s, 1)) THEN Char(s, 1) ELSE "") \o keepAlnum(Tail(s))

linkOfDomain(domain) ==
  IF Len(domain) < 2 THEN Null ELSE "https://" \o domain \o ".com"

inferServiceLink(serviceName) ==
  IF ~truthy(serviceName) THEN Null ELSE linkOfDomain(keepAlnum(toLowerCase(serviceName)))

inferProviderEmail(account) ==
  IF truthy(account.accountEmail) /\ isValidEmail(account.accountEmail)
  THEN account.accountEmail
  ELSE Null

(***************************************************************************)
(* normalizeAccount.  A raw record is [accountEmail, service, link], link  *)
(* being metadata.link (Undefined when the record has none).               *)
(***************************************************************************)
\* STEP 1
step1Email(account) ==
  IF truthy(account.accountEmail) THEN extractEmail(account.accountEmail) ELSE Null

step1Url(account) ==
  IF truthy(account.accountEmail) THEN extractUrl(account.accountEmail) ELSE Null

\* STEP 2: the email and the URL found in the service field
serviceEmailOf(account) ==
  IF truthy(account.service) THEN extractEmail(account.service) ELSE Null

serviceUrlOf(account) ==
  IF truthy(account.service) THEN extractUrl(account.service) ELSE Null

extractedEmailOf(account) ==
  IF truthy(serviceEmailOf(account)) /\ ~truthy(step1Email(account))
  THEN serviceEmailOf(account)
  ELSE step1Email(account)

step2Url(account) ==
  IF truthy(serviceUrlOf(account)) /\ ~truthy(step1Url(account))
  THEN serviceUrlOf(account)
  ELSE step1Url(account)

\* STEP 3: metadata.link when no URL was extracted
usesMetadataLink(account) ==
  truthy(account.link) /\ ~truthy(step2Url(account)) /\ isValidUrl(account.link)

extractedUrlOf(account) ==
  IF usesMetadataLink(account) THEN account.link ELSE step2Url(account)

\* STEP 2: the service name read from the service field
extractedServiceNameOf(account) ==
  IF ~truthy(account.service) THEN Null
  ELSE IF truthy(extractServiceNameFromString(account.service))
       THEN extractServiceNameFromString(account.service)
  ELSE IF /\ ~truthy(serviceEmailOf(account))
          /\ ~truthy(serviceUrlOf(account))
          /\ isValidServiceName(account.service)
       THEN trim(account.service)
  ELSE Null

pushIf(condition, field) == IF condition THEN <<field>> ELSE <<>>

\* inferredFields after STEP 2 and STEP 3
extractionFields(account) ==
  pushIf(truthy(serviceEmailOf(account)) /\ ~truthy(step1Email(account)),
         "providerEmail")
  \o pushIf(truthy(serviceUrlOf(account)) /\ ~truthy(step1Url(account)),
            "serviceLink")
  \o pushIf(truthy(account.service)
              /\ truthy(extractServiceNameFromString(account.service)),
            "serviceName")
  \o pushIf(usesMetadataLink(account), "serviceLink")

\* STEP 4, provider email
normalizedProviderEmail(account, extractedEmail) ==
  IF truthy(extractedEmail) /\ isValidEmail(extractedEmail) THEN extractedEmail
  ELSE IF truthy(account.accountEmail) /\ isValidEmail(account.accountEmail)
       THEN account.accountEmail
  ELSE IF truthy(inferProviderEmail(account)) THEN inferProviderEmail(account)
  ELSE ""

providerEmailInferred(account, extractedEmail) ==
  /\ ~(truthy(extractedEmail) /\ isValidEmail(extractedEmail))
  /\ ~(truthy(account.accountEmail) /\ isValidEmail(account.accountEmail))
  /\ truthy(inferProviderEmail(account))

\* serviceNameForInference = extractedServiceName || account.service
serviceNameForInference(account, extractedServiceName) ==
  IF truthy(extractedServiceName) THEN extractedServiceName ELSE account.service

serviceLinkInferred(account, extractedUrl, extractedServiceName) ==
  /\ ~(truthy(extractedUrl) /\ isValidUrl(extractedUrl))
  /\ ~(truthy(account.link) /\ isValidUrl(account.link))
  /\ truthy(serviceNameForInference(account, extractedServiceName))
  /\ truthy(inferServiceLink(serviceNameForInference(account, extractedServiceName)))

\* STEP 4, service link
normalizedServiceLink(account, extractedUrl, extractedServiceName) ==
  IF truthy(extractedUrl) /\ isValidUrl(extractedUrl) THEN extractedUrl
  ELSE IF truthy(account.link) /\ isValidUrl(account.link) THEN account.link
  ELSE IF serviceLinkInferred(account, extractedUrl, extractedServiceName)
       THEN inferServiceLink(serviceNameForInference(account, extractedServiceName))
  ELSE ""

\* the domain the service name is inferred from, or Null
domainForName(providerEmail, serviceLink) ==
  IF truthy(providerEmail) /\ includes(providerEmail, "@")
  THEN split(providerEmail, "@")[2]
  ELSE IF truthy(serviceLink) /\ urlHostname(serviceLink) # UrlThrows
       THEN urlHostname(serviceLink)
  ELSE Null

serviceNameInferred(account, extractedServiceName, domain) ==
  /\ ~(truthy(extractedServiceName) /\ isValidServiceName(extractedServiceName))
  /\ ~(truthy(account.service) /\ isValidServiceName(account.service))
  /\ truthy(domain) /\ truthy(inferServiceNameFromDomain(domain))

\* STEP 4, service name
normalizedServiceName(account, extractedServiceName, domain) ==
  IF truthy(extractedServiceName) /\ isValidServiceName(extractedServiceName)
  THEN extractedServiceName
  ELSE IF truthy(account.service) /\ isValidServiceName(account.service)
       THEN account.service
  ELSE IF serviceNameInferred(account, extractedServiceName, domain)
       THEN inferServiceNameFromDomain(domain)
  ELSE ""

\* STEP 5
hasValidProviderEmail(normalized) ==
  truthy(normalized.providerEmail) /\ isValidEmail(normalized.providerEmail)

hasValidServiceLink(normalized) ==
  truthy(normalized.serviceLink) /\ isValidUrl(normalized.serviceLink)

hasValidServiceName(normalized) ==
  truthy(normalized.serviceName) /\ isValidServiceName(normalized.serviceName)

\* a STEP 6 that does not look at the service link
needsReviewWithoutLink(normalized) ==
  ~hasValidProviderEmail(normalized) \/ ~hasValidServiceName(normalized)

\* STEP 6
needsReviewOf(normalized) ==
  \/ ~hasValidProviderEmail(normalized)
  \/ ~hasValidServiceLink(normalized)
  \/ ~hasValidServiceName(normalized)

\* the record after STEP 4
withName(account, extractedServiceName, providerEmail, serviceLink, fields, domain) ==
  [accountEmail |-> account.accountEmail, service |-> account.service,
   link |-> account.link, providerEmail |-> providerEmail,
   serviceLink |-> serviceLink,
   serviceName |-> normalizedServiceName(account, extractedServiceName, domain),
   inferredFields |->
      fields \o pushIf(serviceNameInferred(account, extractedServiceName, domain),
                       "serviceName")]

withLink(account, extractedUrl, extractedServiceName, providerEmail, serviceLink, fields) ==
  withName(account, extractedServiceName, providerEmail, serviceLink,
           fields \o pushIf(serviceLinkInferred(account, extractedUrl,
                                                extractedServiceName),
                            "serviceLink"),
           domainForName(providerEmail, serviceLink))

assigned(account, extractedEmail, extractedUrl, extractedServiceName) ==
  withLink(account, extractedUrl, extractedServiceName,
           normalizedProviderEmail(account, extractedEmail),
           normalizedServiceLink(account, extractedUrl, extractedServiceName),
           extractionFields(account)
             \o pushIf(providerEmailInferred(account, extractedEmail),
                       "providerEmail"))

\* STEP 5, STEP 6 and the final normalizationApplied
reviewed(normalized) ==
  [accountEmail |-> normalized.accountEmail, service |-> normalized.service,
   link |-> normalized.link, providerEmail |-> normalized.providerEmail,
   serviceLink |-> normalized.serviceLink, serviceName |-> normalized.serviceName,
   inferredFields |-> normalized.inferredFields,
   needsReview |-> needsReviewOf(normalized),
   normalizationApplied |-> Len(normalized.inferredFields) > 0]

normalizeAccount(account) ==
  reviewed(assigned(account, extractedEmailOf(account), extractedUrlOf(account),
                    extractedServiceNameOf(account)))

(***************************************************************************)
(* The normalizer applied to one raw record                                *)
(***************************************************************************)
outsideNorm == <<engineVars, links, combined, match, master, limiter, heap>>

NormEmails ==
  {"", "u@x.com", "u@x", " u@x.com ", "billing@netflix.com https://netflix.com"}

NormServices ==
  {"", "Netflix", "X", "accounts.spotify.com (meganmulcahy9)", "www.netflix.com",
   "support@hulu.com", "https://hulu.com/login", "shop.example.xyz"}

NormLinks == {Undefined, "https://netflix.com", "netflix.com", "https://u@x.com"}

RawAccounts == [accountEmail : NormEmails, service : NormServices, link : NormLinks]

notNormalized ==
  [accountEmail |-> "", service |-> "", link |-> Undefined, providerEmail |-> "",
   serviceLink |-> "", serviceName |-> "", inferredFields |-> <<>>,
   needsReview |-> FALSE, normalizationApplied |-> FALSE]

InitNorm ==
  /\ norm \in [account : RawAccounts, done : {FALSE}, out : {notNormalized}]
  /\ engineIdle("norm")
  /\ links = noLinks /\ combined = notCombined
  /\ match = Idle /\ master = Idle /\ limiter = Idle /\ heap = Idle

Normalize ==
  /\ ~norm.done
  /\ norm' = [norm EXCEPT !.done = TRUE, !.out = normalizeAccount(norm.account)]
  /\ UNCHANGED outsideNorm

NextNorm == Normalize

NormSpec == InitNorm /\ [][NextNorm]_vars

allThreeValid(normalized) ==
  /\ isValidEmail(normalized.providerEmail)
  /\ isValidUrl(normalized.serviceLink)
  /\ isValidServiceName(normalized.serviceName)

(* C22: when normalizeAccount returns needsReview = false the returned     *)
(* providerEmail, serviceLink and serviceName pass their validators, and   *)
(* needsReview is true whenever one of the three is empty or invalid.      *)
C22_ReviewUnlessAllValid ==
  norm.done =>
     /\ ~norm.out.needsReview => allThreeValid(norm.out)
     /\ ~allThreeValid(norm.out) => norm.out.needsReview

\* a record normalized without review, and one sent to review for its link only
C22_Witness ==
  /\ norm.done
  /\ \/ /\ ~norm.out.needsReview /\ norm.out.serviceName = "Spotify"
        /\ norm.out.serviceLink = "https://spotify.com"
     \/ /\ norm.out.needsReview /\ norm.out.serviceLink = ""
        /\ norm.out.serviceName = "X" /\ isValidEmail(norm.out.providerEmail)

(***************************************************************************)
(* Object identity.  The engine above works on values; here the records,   *)
(* their metadata objects and their arrays are objects of a heap, so that  *)
(* a write to an object that an input record shares is visible.  A         *)
(* reference is an index of the sequence of objects, 0 is no object.       *)
(***************************************************************************)
recordObject(fields, metadata, allSources) ==
  [kind |-> "record", fields |-> fields, metadata |-> metadata,
   allSources |-> allSources]

\* link is the reference of the array when metadata.link is an array
metadataObject(fields, link) == [kind |-> "metadata", fields |-> fields, link |-> link]

arrayObject(items) == [kind |-> "array", items |-> items]

\* the properties of a record that are not references
scalarsOf(account) == [account EXCEPT !.metadata = Undefined, !.allSources = <<>>]

metadataScalarsOf(metadata) ==
  [metadata EXCEPT !.link = IF @.kind = "array" THEN LinkNone ELSE @]

metadataValueOf(objects, m) ==
  [objects[m].fields EXCEPT
     !.link = IF objects[m].link = 0 THEN @
              ELSE LinkArr(objects[objects[m].link].items)]

\* the value the engine reads through the reference r of a record
valueOf(objects, r) ==
  [objects[r].fields EXCEPT
     !.metadata = metadataValueOf(objects, objects[r].metadata),
     !.allSources = IF objects[r].allSources = 0 THEN <<>>
                    ELSE objects[objects[r].allSources].items]

valuesOf(objects, m) ==
  [k \in 1..Len(m) |-> [key |-> m[k].key, val |-> valueOf(objects, m[k].val)]]

\* the objects of a record a parser produced: the link array if the link is
\* one, the metadata object and the record, which is the last object
withArray(objects, link) ==
  IF link.kind = "array" THEN Append(objects, arrayObject(link.a)) ELSE objects

withMetadata(objects, metadata) ==
  Append(objects,
         metadataObject(metadataScalarsOf(metadata),
                        IF metadata.link.kind = "array" THEN Len(objects) ELSE 0))

withRecord(objects, account) ==
  Append(objects, recordObject(scalarsOf(account), Len(objects), 0))

withAccount(objects, account) ==
  withRecord(withMetadata(withArray(objects, account.metadata.link),
                          account.metadata),
             account)

\* the heap that holds the input list: [objects, refs]
RECURSIVE withAccounts(_, _)
withAccounts(h, accounts) ==
  IF Len(accounts) = 0 THEN h
  ELSE withAccounts([objects |-> withAccount(h.objects, Head(accounts)),
                     refs |-> Append(h.refs,
                                     Len(withAccount(h.objects, Head(accounts))))],
                    Tail(accounts))

\* { ...account, source, metadata: { ...account.metadata }, allSources:
\* [account.source], ... } (lines 703-709, 902-909, 1050-1057): three new
\* objects, the record last; the copy of the metadata shares the link array
withNewGroup(objects, r, source) ==
  Append(Append(Append(objects, objects[objects[r].metadata]),
                arrayObject(<<objects[r].fields.source>>)),
         recordObject(scalarsOf(newGroup(valueOf(objects, r), source)),
                      Len(objects) + 1, Len(objects) + 2))

\* writing the object at reference ref: a new object when ref is the next one
put(objects, ref, object) ==
  IF ref > Len(objects) THEN Append(objects, object)
  ELSE [objects EXCEPT ![ref] = object]

\* a merge that writes the merged properties into the metadata of existing
mergedMetadataInPlace(objects, existing) == objects[existing].metadata

\* const mergedMetadata = { ...(existing.metadata || {}) } (lines 533-535): a
\* new object
mergedMetadataRef(objects, existing) == Len(objects) + 1

\* mergedMetadata after the writes of lines 537-626; the link array of existing
\* stays shared when no combined link replaces it
mergedMetadataObject(objects, existing, merged) ==
  metadataObject(metadataScalarsOf(merged.metadata),
                 IF merged.metadata.link.kind = "array"
                 THEN objects[objects[existing].metadata].link ELSE 0)

\* mergedSources = [...existing.allSources] (line 505) and the returned
\* { ...existing, ... } (lines 636-646): two new objects, the record last
withMergedRecord(objects, merged, metadata) ==
  Append(Append(objects, arrayObject(merged.allSources)),
         recordObject(scalarsOf(merged), metadata, Len(objects) + 1))

withMergedAs(objects, existing, merged, metadata) ==
  withMergedRecord(put(objects, metadata,
                       mergedMetadataObject(objects, existing, merged)),
                   merged, metadata)

\* mergeAccountsWithLinks(existing, incoming) on references
withMerged(objects, existing, incoming) ==
  withMergedAs(objects, existing,
               mergeAccountsWithLinks(valueOf(objects, existing),
                                      valueOf(objects, incoming)),
               mergedMetadataRef(objects, existing))

refsThrow(objects, existing, incoming) ==
  mergeThrows(valueOf(objects, existing), valueOf(objects, incoming))

(***************************************************************************)
(* consolidateAccounts on references.  The state of a call is              *)
(*   [objects, mergeMap, blankRowsByService, threw]                        *)
(* and the maps hold references.  The searches are those of the engine,    *)
(* applied to the values behind the references.                            *)
(***************************************************************************)
\* mergeMap.set(key, dedupedAccount) (lines 902-910, 1050-1058)
setNewGroup(h, key, r, source) ==
  [h EXCEPT !.objects = withNewGroup(@, r, source),
            !.mergeMap = mapSet(@, key, Len(h.objects) + 3)]

\* mergeMap.set(key, mergeAccountsWithLinks(existing, incoming)), after the
\* delete of the old key if there is one (lines 913-921, 1018-1029)
setMerged(h, oldKey, key, existing, incoming) ==
  IF refsThrow(h.objects, existing, incoming) THEN [h EXCEPT !.threw = TRUE]
  ELSE [h EXCEPT
          !.objects = withMerged(@, existing, incoming),
          !.mergeMap = mapSet(IF oldKey # key THEN mapDelete(@, oldKey) ELSE @,
                              key, Len(withMerged(h.objects, existing, incoming)))]

refPass1Store(h, r, f) ==
  IF f.existingKey = ""
  THEN setNewGroup(h, f.mergeKeyToUse, r, recomputedSourceOf(valueOf(h.objects, r)))
  ELSE setMerged(h, f.existingKey, f.mergeKeyToUse,
                 mapGet(h.mergeMap, f.existingKey), r)

\* one iteration of the first loop (lines 673-923)
refPass1Step(h, r, account) ==
  IF account.id = "" THEN h
  ELSE IF hasEmptyCredentials(account) /\ ~isEmpty(orEmpty(account.service))
  THEN [h EXCEPT
          !.objects = withNewGroup(@, r, account.source),
          !.blankRowsByService =
             pushBlankRow(@, serviceOf(account), Len(h.objects) + 3)]
  ELSE IF hasEmptyCredentials(account) THEN h
  ELSE refPass1Store(h, r, findExisting(valuesOf(h.objects, h.mergeMap), account))

RECURSIVE refPass1(_, _)
refPass1(h, refs) ==
  IF Len(refs) = 0 \/ h.threw THEN h
  ELSE refPass1(refPass1Step(h, Head(refs), valueOf(h.objects, Head(refs))),
                Tail(refs))

\* the second loop (lines 932-1062) on r = [h, processedIds]
refPass2Store(p, list, ref, account, hit) ==
  IF hit # 0
  THEN [h |-> setMerged(p.h,
                 keyOfId(valuesOf(p.h.objects, p.h.mergeMap),
                         valueOf(p.h.objects, list[hit]).id),
                 keyOfId(valuesOf(p.h.objects, p.h.mergeMap),
                         valueOf(p.h.objects, list[hit]).id),
                 list[hit], ref),
        processedIds |-> p.processedIds \cup {account.id}]
  ELSE IF pass2NewKey(account) # "" /\ ~mapHas(p.h.mergeMap, pass2NewKey(account))
  THEN [h |-> setNewGroup(p.h, pass2NewKey(account), ref, recomputedSourceOf(account)),
        processedIds |-> p.processedIds \cup {account.id}]
  ELSE p

refPass2Step(p, list, ref, account) ==
  IF account.id = "" \/ account.id \in p.processedIds \/ hasEmptyCredentials(account)
  THEN p
  ELSE refPass2Store(p, list, ref, account,
         firstIndex(Len(list),
           LAMBDA k : /\ pass2Matches(account, valueOf(p.h.objects, list[k]))
                      /\ keyOfId(valuesOf(p.h.objects, p.h.mergeMap),
                                 valueOf(p.h.objects, list[k]).id) # ""))

RECURSIVE refPass2Loop(_, _, _)
refPass2Loop(p, list, refs) ==
  IF Len(refs) = 0 \/ p.h.threw THEN p.h
  ELSE refPass2Loop(refPass2Step(p, list, Head(refs),
                                 valueOf(p.h.objects, Head(refs))),
                    list, Tail(refs))

refPass2(h, refs) ==
  refPass2Loop([h |-> h,
                processedIds |-> processedIdsOf(valuesOf(h.objects, h.mergeMap))],
               mapValues(h.mergeMap), refs)

\* the loop over the blank rows of a bucket (lines 1081-1085): [objects, ref]
RECURSIVE refMergeBlankRows(_, _)
refMergeBlankRows(m, blankRows) ==
  IF Len(blankRows) = 0 THEN m
  ELSE refMergeBlankRows(
         [objects |-> withMerged(m.objects, m.ref, Head(blankRows)),
          ref |-> Len(withMerged(m.objects, m.ref, Head(blankRows)))],
         Tail(blankRows))

refValues(objects, refs) == [k \in 1..Len(refs) |-> valueOf(objects, refs[k])]

\* one bucket of STEP 1b (lines 1065-1098); hit is the first filled row
refPass3Store(h, serviceKey, blankRows, hit) ==
  IF hit # 0
  THEN IF blankRowsThrow(valueOf(h.objects, h.mergeMap[hit].val),
                         refValues(h.objects, blankRows))
       THEN [h EXCEPT !.threw = TRUE]
       ELSE [h EXCEPT
               !.objects = refMergeBlankRows([objects |-> @,
                                              ref |-> h.mergeMap[hit].val],
                                             blankRows).objects,
               !.mergeMap = mapSet(@, h.mergeMap[hit].key,
                              refMergeBlankRows([objects |-> h.objects,
                                                 ref |-> h.mergeMap[hit].val],
                                                blankRows).ref)]
  ELSE [h EXCEPT !.mergeMap = mapSet(@, "_BLANK_" \o serviceKey, blankRows[1])]

refPass3Step(h, bucket) ==
  refPass3Store(h, bucket.key, bucket.val,
    firstIndex(Len(h.mergeMap),
      LAMBDA k : toLowerCase(normalizeEmpty(
                    valueOf(h.objects, h.mergeMap[k].val).service)) = bucket.key))

RECURSIVE refPass3Loop(_, _)
refPass3Loop(h, buckets) ==
  IF Len(buckets) = 0 \/ h.threw THEN h
  ELSE refPass3Loop(refPass3Step(h, Head(buckets)), Tail(buckets))

\* STEP 2 and STEP 4 (lines 1114-1199, 1241-1318) fill a new map: a record
\* merges into the entry the scan finds, or becomes an entry itself
refFinalStore(h, ref, mergeKey, target) ==
  IF target # 0
  THEN setMerged(h, h.mergeMap[target].key, h.mergeMap[target].key,
                 h.mergeMap[target].val, ref)
  ELSE [h EXCEPT !.mergeMap = mapSet(@, mergeKey, ref)]

refStep2Step(h, ref, account) ==
  IF /\ isEmpty(normalizeEmpty(account.accountEmail))
     /\ isEmpty(normalizeEmpty(account.service))
     /\ isEmpty(normalizeEmpty(serviceLinkOf(account)))
  THEN h
  ELSE refFinalStore(h, ref, finalMergeKey(account),
         step2Target([map |-> valuesOf(h.objects, h.mergeMap)], account,
                     finalMergeKey(account)))

RECURSIVE refStep2Loop(_, _)
refStep2Loop(h, refs) ==
  IF Len(refs) = 0 \/ h.threw THEN h
  ELSE refStep2Loop(refStep2Step(h, Head(refs), valueOf(h.objects, Head(refs))),
                    Tail(refs))

refStep4Step(p, ref, account) ==
  IF account.id \in p.processedFinalIds THEN p
  ELSE [h |-> refFinalStore(p.h, ref, step4MergeKey(account),
                step4Target([map |-> valuesOf(p.h.objects, p.h.mergeMap)], account,
                            step4MergeKey(account))),
        processedFinalIds |-> p.processedFinalIds \cup {account.id}]

RECURSIVE refStep4Loop(_, _)
refStep4Loop(p, refs) ==
  IF Len(refs) = 0 \/ p.h.threw THEN p.h
  ELSE refStep4Loop(refStep4Step(p, Head(refs), valueOf(p.h.objects, Head(refs))),
                    Tail(refs))

\* the catch block (lines 1099-1112): { ...acc, allSources: [acc.source], ... }
\* for every input record, which shares the metadata object of the record
withFallback(objects, r) ==
  Append(Append(objects, arrayObject(<<objects[r].fields.source>>)),
         recordObject(scalarsOf(newGroup(valueOf(objects, r), objects[r].fields.source)),
                      objects[r].metadata, Len(objects) + 1))

RECURSIVE refFallback(_, _)
refFallback(h, refs) ==
  IF Len(refs) = 0 THEN h
  ELSE refFallback([h EXCEPT
                      !.objects = withFallback(@, Head(refs)),
                      !.mergeMap = Append(@, [key |-> "", val |-> Len(h.objects) + 2])],
                   Tail(refs))

(***************************************************************************)
(* One call of consolidateAccounts on a heap that holds the input list.    *)
(* heap.before is the heap as the caller passed it, heap.refs the input    *)
(* array, heap.mergeMap the map the current pass fills.                    *)
(***************************************************************************)
outsideHeap == <<engineVars, links, combined, match, norm, master, limiter>>

HeapTemplates ==
  LinkShapeTemplates
  \cup {Template("Netflix", "", "", LinkArr(<<"https://netflix.com">>),
                 Undefined, Undefined, Undefined),
        Template("Prime", "u@x.com", "p", LinkStr("https://netflix.com"),
                 Undefined, Undefined, NotAString)}

HeapInputs == UNION {ListsOf(HeapTemplates, n) : n \in 1..MaxRecords}

heapOf(h) ==
  [objects |-> h.objects, before |-> h.objects, refs |-> h.refs, mergeMap |-> <<>>,
   blankRowsByService |-> <<>>, threw |-> FALSE, phase |-> "call"]

InitHeap ==
  /\ heap \in {heapOf(withAccounts([objects |-> <<>>, refs |-> <<>>], accounts)) :
                 accounts \in HeapInputs}
  /\ engineIdle("heap")
  /\ links = noLinks /\ combined = notCombined
  /\ match = Idle /\ norm = Idle /\ master = Idle /\ limiter = Idle

\* lines 669-923
RefPass1 ==
  /\ heap.phase = "call"
  /\ heap' = [refPass1(heap, heap.refs) EXCEPT !.phase = "pass1"]
  /\ UNCHANGED outsideHeap

\* lines 925-1062
RefPass2 ==
  /\ heap.phase = "pass1" /\ ~heap.threw
  /\ heap' = [refPass2(heap, heap.refs) EXCEPT !.phase = "pass2"]
  /\ UNCHANGED outsideHeap

\* lines 1064-1098
RefPass3 ==
  /\ heap.phase = "pass2" /\ ~heap.threw
  /\ heap' = [refPass3Loop(heap, heap.blankRowsByService) EXCEPT !.phase = "pass3"]
  /\ UNCHANGED outsideHeap

\* lines 1099-1112
RefCatch ==
  /\ heap.phase \in {"pass1", "pass2", "pass3"} /\ heap.threw
  /\ heap' = [refFallback([heap EXCEPT !.mergeMap = <<>>], heap.refs)
                EXCEPT !.phase = "returned"]
  /\ UNCHANGED outsideHeap

\* lines 1114-1199
RefStep2 ==
  /\ heap.phase = "pass3" /\ ~heap.threw
  /\ heap' = [refStep2Loop([heap EXCEPT !.mergeMap = <<>>], mapValues(heap.mergeMap))
                EXCEPT !.phase = "step2"]
  /\ UNCHANGED outsideHeap

\* lines 1241-1325; the accounts returned are the values of heap.mergeMap
RefStep4 ==
  /\ heap.phase = "step2" /\ ~heap.threw
  /\ heap' = [refStep4Loop([h |-> [heap EXCEPT !.mergeMap = <<>>],
                            processedFinalIds |-> {}],
                           mapValues(heap.mergeMap))
                EXCEPT !.phase = "returned"]
  /\ UNCHANGED outsideHeap

NextHeap == RefPass1 \/ RefPass2 \/ RefPass3 \/ RefCatch \/ RefStep2 \/ RefStep4

HeapSpec == InitHeap /\ [][NextHeap]_vars

\* every object the caller passed is what it was before the call
inputIntact ==
  \A r \in 1..Len(heap.before) : heap.objects[r] = heap.before[r]

\* a step leaves every object that exists as it is: it only adds objects
onlyNewObjects ==
  \A r \in 1..Len(heap.objects) : heap'.objects[r] = heap.objects[r]

(* C23: consolidateAccounts never mutates its input: every input record,   *)
(* with its metadata object and its link array, is after the call what it  *)
(* was before, and every merge builds new objects instead of writing to    *)
(* the record or the metadata of the existing group.                       *)
C23_InputNeverMutated == [](inputIntact) /\ [][onlyNewObjects]_vars

\* a call that returned one group merged from records of which one shares
\* its link array with the group that was made of it
C23_Witness ==
  /\ heap.phase = "returned" /\ ~heap.threw
  /\ Len(heap.mergeMap) = 1
  /\ Cardinality(valueOf(heap.objects, heap.mergeMap[1].val).members) >= 2
  /\ \E r \in 1..Len(heap.before) :
        /\ heap.before[r].kind = "metadata" /\ heap.before[r].link # 0
        /\ \E g \in (Len(heap.before) + 1)..Len(heap.objects) :
              /\ heap.objects[g].kind = "metadata"
              /\ heap.objects[g].link = heap.before[r].link

\* an input record with an id, an email and a password
isPlaceable(account) == account.id # "" /\ ~hasEmptyCredentials(account)

\* the positions of the groups of the list that hold the record with this id
groupsHolding(accounts, id) == {i \in 1..Len(accounts) : id \in accounts[i].members}

(* C24: no input record is silently lost: every input record with an id,   *)
(* a non-empty email and a non-empty password is, when consolidateAccounts *)
(* returns, a member of exactly one output group.                          *)
C24_NoRecordLost ==
  returned =>
     \A k \in 1..Len(input) :
        isPlaceable(input[k]) =>
           Cardinality(groupsHolding(result.accounts, input[k].id)) = 1

\* the input records that founded the group g: a merge keeps the id of the
\* existing record
foundersOf(g) == {k \in 1..Len(input) : input[k].id = g.id}

sameCredentialIdentity(g, account) ==
  /\ toLowerCase(orEmpty(g.accountEmail)) = toLowerCase(orEmpty(account.accountEmail))
  /\ g.metadata.password = account.metadata.password

(* C25: a merge never changes a group's credential identity: after any     *)
(* sequence of merges, blank-credential absorption included, each group's  *)
(* lowercased accountEmail and its password are those of the record that   *)
(* founded the group.                                                      *)
C25_CredentialIdentityKept ==
  \A i \in 1..Len(currentGroups) :
     \A k \in foundersOf(currentGroups[i]) :
        sameCredentialIdentity(currentGroups[i], input[k])

\* the buckets of blank rows for which the map holds no filled group of the
\* same service name
filledGroupsOfService(s, serviceKey) ==
  {k \in 1..Len(s.mergeMap) :
     /\ ~hasEmptyCredentials(s.mergeMap[k].val)
     /\ toLowerCase(normalizeEmpty(s.mergeMap[k].val.service)) = serviceKey}

bucketsWithoutFilledGroup(s) ==
  {b \in 1..Len(s.blankRowsByService) :
     filledGroupsOfService(s, s.blankRowsByService[b].key) = {}}

RECURSIVE removedFromBuckets(_, _)
removedFromBuckets(s, buckets) ==
  IF buckets = {} THEN 0
  ELSE (Len(s.blankRowsByService[CHOOSE b \in buckets : TRUE].val) - 1)
         + removedFromBuckets(s, buckets \ {CHOOSE b \in buckets : TRUE})

\* the accounts of the list that hold a row of the bucket
holdersOf(accounts, blankRows) ==
  {i \in 1..Len(accounts) :
     \E n \in 1..Len(blankRows) : blankRows[n].id \in accounts[i].members}

\* one account, which is the first row of the bucket and nothing else
representedByFirst(accounts, blankRows) ==
  /\ Cardinality(holdersOf(accounts, blankRows)) = 1
  /\ \A i \in holdersOf(accounts, blankRows) :
        /\ accounts[i].id = blankRows[1].id
        /\ accounts[i].members = {blankRows[1].id}

(* C26: for every bucket of blank-credential records (grouped by           *)
(* lowercased service name) for which no filled group has the same service *)
(* name, the output holds exactly one record for the bucket, its first     *)
(* record, kept as its own group and not merged with any other group, and  *)
(* the other k-1 records of the bucket are counted in removedCount.        *)
C26_OneRepresentative ==
  (returned /\ round = 1) =>
     /\ \A b \in bucketsWithoutFilledGroup(st) :
           representedByFirst(result.accounts, st.blankRowsByService[b].val)
     /\ result.removedCount >= removedFromBuckets(st, bucketsWithoutFilledGroup(st))

(***************************************************************************)
(* The master list of the renderer (contexts/MasterListContext.tsx): the   *)
(* React state accounts, the handlers that set it, and a cleanDuplicates   *)
(* whose IPC call is in flight.  Every handler runs in the closure of the  *)
(* last render, so it reads the accounts that are committed when it        *)
(* starts; the part of cleanDuplicates after the await still works on the  *)
(* accounts it read before it.                                             *)
(***************************************************************************)
outsideMaster == <<engineVars, links, combined, match, norm, limiter, heap>>

\* shared/deduplication.ts, lines 1331-1334
deduplicateAccounts(accounts) == consolidateAccounts(accounts).accounts

\* accounts.map(a => ({ id, service, accountEmail, source, discoveredAt,
\* metadata })) (lines 31-38, 74-81)
convertedAccount(a) ==
  [a EXCEPT !.allSources = <<>>, !.firstDiscoveredAt = 0, !.lastDiscoveredAt = 0,
            !.members = {a.id}]

convertedAccounts(accounts) ==
  [k \in 1..Len(accounts) |-> convertedAccount(accounts[k])]

\* the dates of the IPC result (lines 86-91): firstDiscoveredAt ||
\* discoveredAt, lastDiscoveredAt || discoveredAt
accountWithDates(acc) ==
  [acc EXCEPT
     !.firstDiscoveredAt = IF @ = 0 THEN acc.discoveredAt ELSE @,
     !.lastDiscoveredAt = IF @ = 0 THEN acc.discoveredAt ELSE @,
     !.members = {acc.id}]

accountsWithDates(accounts) ==
  [k \in 1..Len(accounts) |-> accountWithDates(accounts[k])]

\* the handler of 'clean-duplicates' in the main process when it answers with
\* method 'javascript' (lines 608-632)
ipcCleanDuplicates(accounts) == deduplicateAccounts(accounts)

\* the records the parsers can deliver: one account twice, and another one
MasterTemplates ==
  <<Template("Netflix", "a@x.com", "p", LinkNone, Undefined, Undefined, Undefined),
    Template("netflix", "A@x.com", "p", LinkNone, Undefined, Undefined, Undefined),
    Template("Hulu", "b@x.com", "q", LinkNone, Undefined, Undefined, Undefined)>>

MasterRecords == {Account(MasterTemplates[k], k) : k \in 1..Len(MasterTemplates)}

idsOf(accounts) == {accounts[k].id : k \in 1..Len(accounts)}

\* newAccounts of addAccounts: records that are not in the list, in the order
\* of their ids
RECURSIVE listOf(_, _)
listOf(records, k) ==
  IF k > Len(MasterTemplates) THEN <<>>
  ELSE (IF Account(MasterTemplates[k], k) \in records
        THEN <<Account(MasterTemplates[k], k)>> ELSE <<>>)
         \o listOf(records, k + 1)

InitMaster ==
  /\ master = [accounts |-> <<>>, pending |-> <<>>, inFlight |-> FALSE, added |-> {}, removed |-> {},
               last |-> "init"]
  /\ engineIdle("master")
  /\ links = noLinks /\ combined = notCombined
  /\ match = Idle /\ norm = Idle /\ limiter = Idle /\ heap = Idle

\* lines 27-44; added remembers what was added while the IPC call is in flight
AddAccounts ==
  \E records \in (SUBSET MasterRecords) \ {{}} :
     /\ idsOf(listOf(records, 1)) \cap idsOf(master.accounts) = {}
     /\ master' = [master EXCEPT
           !.accounts = deduplicateAccounts(convertedAccounts(master.accounts)
                                              \o listOf(records, 1)),
           !.added = IF ~master.inFlight THEN {}
                     ELSE @ \cup idsOf(listOf(records, 1)),
           !.last = "addAccounts"]
     /\ UNCHANGED outsideMaster

\* prevAccounts.filter(account => !accountIds.includes(account.id))
RECURSIVE withoutAccounts(_, _)
withoutAccounts(accounts, accountIds) ==
  IF Len(accounts) = 0 THEN <<>>
  ELSE (IF Head(accounts).id \in accountIds THEN <<>> ELSE <<Head(accounts)>>)
         \o withoutAccounts(Tail(accounts), accountIds)

\* lines 49-54
RemoveAccounts ==
  \E accountIds \in (SUBSET idsOf(master.accounts)) \ {{}} :
     /\ master' = [master EXCEPT
           !.accounts = withoutAccounts(@, accountIds),
           !.removed = IF ~master.inFlight THEN {} ELSE @ \cup accountIds,
           !.added = @ \ accountIds,
           !.last = "removeAccounts"]
     /\ UNCHANGED outsideMaster

\* lines 59-61
ClearAccounts ==
  /\ master.accounts # <<>>
  /\ master' = [master EXCEPT
        !.accounts = <<>>,
        !.removed = IF ~master.inFlight THEN {}
                    ELSE @ \cup idsOf(master.accounts),
        !.added = {},
        !.last = "clearAccounts"]
  /\ UNCHANGED outsideMaster

\* cleanDuplicates up to its await (lines 66-83): the accounts of the closure
\* are sent to the main process
CleanDuplicatesCall ==
  /\ ~master.inFlight
  /\ master.accounts # <<>>
  /\ master' = [master EXCEPT
        !.pending = convertedAccounts(master.accounts), !.inFlight = TRUE,
        !.added = {}, !.removed = {},
        !.last = "cleanDuplicates"]
  /\ UNCHANGED outsideMaster

\* the rest of cleanDuplicates when the call resolves with success (lines
\* 85-96)
CleanDuplicatesResolved ==
  /\ master.inFlight
  /\ master' = [master EXCEPT
        !.accounts = deduplicateAccounts(
                       accountsWithDates(ipcCleanDuplicates(master.pending))),
        !.pending = <<>>, !.inFlight = FALSE,
        !.last = "cleaned"]
  /\ UNCHANGED outsideMaster

\* the call resolves without success: cleanDuplicates throws (lines 97-99,
\* 113-116)
CleanDuplicatesFailed ==
  /\ master.inFlight
  /\ master' = [master EXCEPT !.pending = <<>>, !.inFlight = FALSE, !.last = "failed"]
  /\ UNCHANGED outsideMaster

NextMaster ==
  \/ AddAccounts \/ RemoveAccounts \/ ClearAccounts
  \/ CleanDuplicatesCall \/ CleanDuplicatesResolved \/ CleanDuplicatesFailed

MasterSpec == InitMaster /\ [][NextMaster]_vars

\* the master list holds an account for the record with this id: the record
\* itself or an account of the same email, password and service
heldBy(accounts, id) ==
  \E k \in 1..Len(accounts) :
     \E r \in MasterRecords :
        /\ r.id = id
        /\ emailOf(accounts[k]) = emailOf(r)
        /\ passwordOf(accounts[k]) = passwordOf(r)
        /\ serviceOf(accounts[k]) = serviceOf(r)

(* C28: the master list has no lost update across an asynchronous          *)
(* cleanDuplicates: accounts added with addAccounts, or removed with       *)
(* removeAccounts, while cleanDuplicates awaits its IPC result are still   *)
(* added, or still removed, when cleanDuplicates completes.                *)
C28_NoLostUpdate ==
  master.last = "cleaned" =>
     /\ \A id \in master.added : heldBy(master.accounts, id)
     /\ \A id \in master.removed : id \notin idsOf(master.accounts)

(***************************************************************************)
(* The RateLimiter of shared/rateLimiter.ts: one limiter, its options, the *)
(* clock Date.now() and the two maps of the class.  A source without an    *)
(* entry in a map reads as [] or 0 (get(source) || ...), which is how the  *)
(* maps are kept here.  granted, hits and delay are history: the times of  *)
(* the calls that returned true, the rate-limit hits of a source since its *)
(* last granted call and the delay applied at the last hit.                *)
(***************************************************************************)
outsideLimiter == <<engineVars, links, combined, match, norm, master, heap>>

MaxTime == 4

Sources == {"gmail", "twitter"}

DefaultInitialBackoffMs == 1000

DefaultMaxBackoffMs == 60000

Min(a, b) == IF a < b THEN a ELSE b

Max(a, b) == IF a > b THEN a ELSE b

\* a || b of two numbers
numberOrElse(a, b) == IF a = 0 THEN b ELSE a

\* timestamps.filter(ts => ts > windowStart + 1): a window one millisecond short
RECURSIVE recentTimestampsShort(_, _)
recentTimestampsShort(timestamps, windowStart) ==
  IF Len(timestamps) = 0 THEN <<>>
  ELSE (IF Head(timestamps) > windowStart + 1 THEN <<Head(timestamps)>> ELSE <<>>)
         \o recentTimestampsShort(Tail(timestamps), windowStart)

\* timestamps.filter(ts => ts > windowStart)
RECURSIVE recentTimestamps(_, _)
recentTimestamps(timestamps, windowStart) ==
  IF Len(timestamps) = 0 THEN <<>>
  ELSE (IF Head(timestamps) > windowStart THEN <<Head(timestamps)>> ELSE <<>>)
         \o recentTimestamps(Tail(timestamps), windowStart)

initialBackoff(options) == numberOrElse(options.initialBackoffMs, DefaultInitialBackoffMs)

maxBackoff(options) == numberOrElse(options.maxBackoffMs, DefaultMaxBackoffMs)

\* applyBackoff, lines 82-90, with Date.now() = now
nextDelay(options, currentBackoff, now) ==
  LET currentDelay == Max(0, currentBackoff - now)
  IN  Min(numberOrElse(currentDelay * 2, initialBackoff(options)), maxBackoff(options))

\* the branch canMakeRequest takes for a source at time now
branchOf(l, source, now) ==
  IF now < l.backoffDelays[source] THEN "backoff"
  ELSE IF Len(recentTimestamps(l.requestTimestamps[source], now - l.options.windowMs))
            >= l.options.maxRequests
       THEN "limit"
       ELSE "granted"

\* the return value of canMakeRequest(source) at time now
canMakeRequest(l, source, now) == branchOf(l, source, now) = "granted"

LimiterOptions ==
  [maxRequests : {1, 2}, windowMs : {2, 3}, useExponentialBackoff : BOOLEAN,
   initialBackoffMs : {0, 1}, maxBackoffMs : {0, 3}]

InitLimiter ==
  /\ \E options \in LimiterOptions :
        limiter = [options |-> options, now |-> 0,
                   requestTimestamps |-> [s \in Sources |-> <<>>],
                   backoffDelays |-> [s \in Sources |-> 0],
                   granted |-> [s \in Sources |-> <<>>],
                   hits |-> [s \in Sources |-> 0],
                   delay |-> [s \in Sources |-> 0],
                   last |-> [source |-> "", branch |-> "none"]]
  /\ engineIdle("limiter")
  /\ links = noLinks /\ combined = notCombined
  /\ match = Idle /\ norm = Idle /\ master = Idle /\ heap = Idle

\* Date.now() moves on
Tick ==
  /\ limiter.now < MaxTime
  /\ limiter' = [limiter EXCEPT !.now = @ + 1, !.last = [source |-> "", branch |-> "tick"]]
  /\ UNCHANGED outsideLimiter

\* canMakeRequest returns false in a backoff period (lines 38-41)
Backoff(source) ==
  /\ branchOf(limiter, source, limiter.now) = "backoff"
  /\ limiter' = [limiter EXCEPT !.last = [source |-> source, branch |-> "backoff"]]

\* canMakeRequest finds the limit exceeded (lines 44-49); applyBackoff reads
\* Date.now() once more (line 83), which may have moved on
Limit(source) ==
  /\ branchOf(limiter, source, limiter.now) = "limit"
  /\ IF limiter.options.useExponentialBackoff
     THEN \E later \in limiter.now..Min(limiter.now + 1, MaxTime) :
             LET d == nextDelay(limiter.options, limiter.backoffDelays[source], later)
             IN  limiter' = [limiter EXCEPT
                    !.now = later,
                    !.backoffDelays[source] = later + d,
                    !.hits[source] = @ + 1,
                    !.delay[source] = d,
                    !.last = [source |-> source, branch |-> "limit"]]
     ELSE limiter' = [limiter EXCEPT !.last = [source |-> source, branch |-> "limit"]]

\* canMakeRequest returns true (lines 51-55)
Granted(source) ==
  /\ branchOf(limiter, source, limiter.now) = "granted"
  /\ limiter' = [limiter EXCEPT
        !.requestTimestamps[source] =
           Append(recentTimestamps(@, limiter.now - limiter.options.windowMs),
                  limiter.now),
        !.granted[source] = Append(@, limiter.now),
        !.hits[source] = 0,
        !.delay[source] = 0,
        !.last = [source |-> source, branch |-> "granted"]]

\* canMakeRequest(source), lines 29-56
CanMakeRequest ==
  /\ \E source \in Sources : Backoff(source) \/ Limit(source) \/ Granted(source)
  /\ UNCHANGED outsideLimiter

\* reset(source), lines 114-117
Reset ==
  /\ \E source \in Sources :
        /\ \/ limiter.requestTimestamps[source] # <<>>
           \/ limiter.backoffDelays[source] # 0
        /\ limiter' = [limiter EXCEPT
              !.requestTimestamps[source] = <<>>,
              !.backoffDelays[source] = 0,
              !.granted[source] = <<>>,
              !.hits[source] = 0,
              !.delay[source] = 0,
              !.last = [source |-> source, branch |-> "reset"]]
  /\ UNCHANGED outsideLimiter

\* clear(), lines 122-125
Clear ==
  /\ \E source \in Sources :
        \/ limiter.requestTimestamps[source] # <<>>
        \/ limiter.backoffDelays[source] # 0
  /\ limiter' = [limiter EXCEPT
        !.requestTimestamps = [s \in Sources |-> <<>>],
        !.backoffDelays = [s \in Sources |-> 0],
        !.granted = [s \in Sources |-> <<>>],
        !.hits = [s \in Sources |-> 0],
        !.delay = [s \in Sources |-> 0],
        !.last = [source |-> "", branch |-> "clear"]]
  /\ UNCHANGED outsideLimiter

NextLimiter == Tick \/ CanMakeRequest \/ Reset \/ Clear

LimiterSpec == InitLimiter /\ [][NextLimiter]_vars

RECURSIVE doubled(_, _)
doubled(d, n) == IF n <= 1 THEN d ELSE doubled(2 * d, n - 1)

\* the delay of the n-th consecutive hit: initialBackoffMs doubled n - 1
\* times, capped at maxBackoffMs
doublingDelay(options, n) ==
  Min(doubled(initialBackoff(options), n), maxBackoff(options))

(* C29: with useExponentialBackoff set, consecutive rate-limit hits of a   *)
(* source double the backoff delay of that source each time                *)
(* (initialBackoffMs, then twice that, and so on) until the delay is       *)
(* capped at maxBackoffMs.                                                 *)
C29_BackoffDoubles ==
  limiter.options.useExponentialBackoff =>
     \A s \in Sources :
        limiter.hits[s] >= 1 => limiter.delay[s] = doublingDelay(limiter.options, limiter.hits[s])

\* the calls of a source that returned true in the window (t - windowMs, t]
grantedInWindow(l, s, t) ==
  {k \in 1..Len(l.granted[s]) :
      l.granted[s][k] > t - l.options.windowMs /\ l.granted[s][k] <= t}

atMostMaxRequests ==
  \A s \in Sources :
     \A t \in 0..MaxTime :
        Cardinality(grantedInWindow(limiter, s, t)) <= limiter.options.maxRequests

\* a call for one source leaves the outcome of every call for another source
\* as it was
otherSourcesUntouched ==
  \A c \in Sources :
     limiter'.last = [source |-> c, branch |-> limiter'.last.branch]
       /\ limiter'.last.branch \in {"backoff", "limit", "granted"} =>
        \A s \in Sources \ {c} :
           \A t \in 0..MaxTime :
              branchOf(limiter', s, t) = branchOf(limiter, s, t)

(* C30: for every source and every sequence of canMakeRequest calls at     *)
(* non-decreasing times, at most maxRequests calls for that source return  *)
(* true within any time window of length windowMs, and calls for one       *)
(* source never change the outcome of calls for another source.            *)
C30_WindowAndIndependence == [](atMostMaxRequests) /\ [][otherSourcesUntouched]_vars

C30_Witness ==
  \E s \in Sources :
     \E c \in Sources \ {s} :
        /\ limiter.last = [source |-> s, branch |-> "limit"]
        /\ Cardinality(grantedInWindow(limiter, s, limiter.now)) = limiter.options.maxRequests
        /\ Len(limiter.granted[s]) > limiter.options.maxRequests
        /\ Len(limiter.granted[c]) > 0

====
